---------------------------- MODULE Spec2Model ----------------------------
(***************************************************************************)
(* DripTorch: the geodesic distance transform (driptorch/_distance.py),    *)
(* the temporal propagator and the Pattern object (driptorch/pattern.py).  *)
(*                                                                         *)
(* Three state machines share the module, one specification each:          *)
(*   SpecGDT      GeodesicDistanceTransform.__init__ / solve               *)
(*   SpecTP       TemporalPropagator.forward                               *)
(*   SpecPattern  Pattern.__init__ / from_dict / merge                     *)
(*                                                                         *)
(* Floats are fixed-point integers.  Distances of the GDT are in units of  *)
(* 1/Scale cell; times of the propagator are in units of 1/TimeScale s.    *)
(* np.inf and NaN are the sentinels Inf and NaN with IEEE arithmetic.      *)
(***************************************************************************)
EXTENDS Integers, Sequences, FiniteSets, TLC

VARIABLES
    \* ---- GeodesicDistanceTransform
    dem,            \* self.dem.data: the padded, z-multiplied elevation grid
    source,         \* cells of the source mask (source.data == 1)
    res_x,          \* self.dem.transform.res_x
    cost_distance,  \* self.cost_distance.data (padded)
    PQ,             \* self.PQ.list: the entries (distance, i, j)
    gpc,            \* position in solve(): "solve", "done"
    result,         \* the grid solve() returns (unpadded)
    \* ---- TemporalPropagator
    paths,          \* self.paths rows in sorted order: heat, igniter, leg, geometry
    crew,           \* self.ignition_crew: velocity of each igniter
    cfg,            \* spacing, sync_end_time, return_trip, time_offset_heat
    start_time,     \* self.paths["start_time"], one per row
    end_time,       \* self.paths["end_time"], one per row
    times,          \* self.paths["times"], one per row
    row,            \* next row of the iterrows() loop of _init_path_time
    tpc,            \* position in forward()
    \* ---- Pattern
    objs,           \* the Pattern objects alive, by identity
    call,           \* the last call on a Pattern: its arguments and its result
    \* ---- Igniter / IgnitionCrew
    icrew,          \* an IgnitionCrew: flags, requirements and igniters
    pcall,          \* the last call on the personnel: arguments and result
    \* ---- FiringBase / Strip / Flank
    tech,           \* a technique object: its class, burn unit and crew size
    gargs,          \* the arguments of its generate_pattern calls
    runs,           \* the path records its generate_pattern calls produced
    \* ---- CostDistance.iterate (strip-contour)
    iter_args,      \* num_igniters, igniter_depth, heat_depth, max of the cost raster
    levels,         \* the contour levels
    contours,       \* what get_contours returned, one contour for each level
    path_dict,      \* the path record iterate() returns
    ipc,            \* position in iterate()
    \* ---- CostDistanceDEM.get_neighbors
    raster,         \* rows and cols of a CostDistanceDEM
    ncall,          \* the last get_neighbors call: index and result
    \* ---- Strip.generate_pattern / Flank.generate_pattern
    gcall,          \* the generate_pattern call that runs the propagator
    \* ---- TemporalPropagator._dashes
    dash_igniter,   \* the igniter of the path: velocity, gap_length, dash_length
    dash_line,      \* the path as _dashes receives it: start_time and geometry
    dash_row,       \* the row of self.paths: times and geometry
    dpc,            \* "call" before _dashes, "done" after
    \* ---- indexed heap of cost_distance.py
    heap_keys,      \* keys: the tree of minima, the entries' keys in its last level
    heap_values,    \* values: the entries' values, by position in the last level
    heap_xrefs,     \* crossrefs: value -> position, -1 when absent
    heap_state,     \* heap[0]: max_value, levels, min_levels, count
    heap_ret,       \* what the last operation returned
    \* ---- CostDistance of strip_contour.py: the Dijkstra loop
    cd_elevation,   \* elevation_raster: rows, cols and the flattened data
    cd_cost,        \* cost_raster.data, flattened
    cd_PQ,          \* self.PQ.list: the heap of (cost, loc) entries
    cd_popped,      \* the entry popped last
    cd_pass,        \* the number of steps iterate has taken, modulo 2
    cdpc,           \* "loop" inside the while loop, "done" after it
    \* ---- an igniter from its construction to its first path time
    vel_igniter,    \* the Igniter built, or what its constructor raised
    vel_crew,       \* the IgnitionCrew it was added to
    vel_path,       \* start_time and end_time of its path after _init_path_time
    velpc,          \* "start", "igniter", "crew", "pattern" or "raised"
    \* ---- the spacing schedules: contour levels and strip start positions
    sched_args,     \* which loop, num_igniters, depth, heat_depth and the upper end
    sched_list,     \* levels of iterate, or x_range of Strip._init_paths
    sched_cur,      \* cur_x of Strip._init_paths
    schedpc         \* "loop", "done", "raised" or "overflow"

gdtVars == <<dem, source, res_x, cost_distance, PQ, gpc, result>>
tpVars  == <<paths, crew, cfg, start_time, end_time, times, row, tpc>>
patVars == <<objs, call>>
persVars == <<icrew, pcall>>
firingVars == <<tech, gargs, runs>>
iterVars == <<iter_args, levels, contours, path_dict, ipc>>
neighborsVars == <<raster, ncall>>
genVars == <<gcall>>
dashVars == <<dash_igniter, dash_line, dash_row, dpc>>
heapVars == <<heap_keys, heap_values, heap_xrefs, heap_state, heap_ret>>
dijkstraVars == <<cd_elevation, cd_cost, cd_PQ, cd_popped, cd_pass, cdpc>>
velVars == <<vel_igniter, vel_crew, vel_path, velpc>>
schedVars == <<sched_args, sched_list, sched_cur, schedpc>>
vars    == <<gdtVars, tpVars, patVars, persVars, firingVars, iterVars, neighborsVars, genVars, dashVars, heapVars, dijkstraVars, velVars, schedVars>>

-----------------------------------------------------------------------------
(* Generic helpers *)

Range(s) == {s[n] : n \in 1..Len(s)}

SetMax(S) == CHOOSE x \in S : \A y \in S : y <= x
SetMin(S) == CHOOSE x \in S : \A y \in S : x <= y

Abs(x) == IF x < 0 THEN -x ELSE x

-----------------------------------------------------------------------------
(* IEEE-754 values: finite fixed-point integers, +inf, -inf and NaN *)

Inf == 2^30
NaN == Inf + 1
NegInf == -Inf

IsFinite(a) == a # Inf /\ a # NegInf /\ a # NaN

FNeg(a) == IF a = NaN THEN NaN ELSE -a

FAdd(a, b) ==
    IF a = NaN \/ b = NaN THEN NaN
    ELSE IF (a = Inf /\ b = NegInf) \/ (a = NegInf /\ b = Inf) THEN NaN
    ELSE IF a = Inf \/ b = Inf THEN Inf
    ELSE IF a = NegInf \/ b = NegInf THEN NegInf
    ELSE a + b

FSub(a, b) == FAdd(a, FNeg(b))

FMul(a, b) ==
    IF a = NaN \/ b = NaN THEN NaN
    ELSE IF ~IsFinite(a) \/ ~IsFinite(b)
         THEN IF a = 0 \/ b = 0 THEN NaN
              ELSE IF (a > 0) = (b > 0) THEN Inf ELSE NegInf
    ELSE a * b

\* a < b and a <= b of floats: every comparison with NaN is false
FLt(a, b) == a # NaN /\ b # NaN /\ a < b
FLe(a, b) == a # NaN /\ b # NaN /\ a <= b

RECURSIVE ISqrtBetween(_, _, _)
ISqrtBetween(n, lo, hi) ==
    IF lo >= hi THEN lo
    ELSE LET mid == (lo + hi + 1) \div 2
         IN  IF mid * mid <= n THEN ISqrtBetween(n, mid, hi)
             ELSE ISqrtBetween(n, lo, mid - 1)

\* floor of the square root of a natural number
ISqrt(n) == ISqrtBetween(n, 0, IF n < 46340 THEN n ELSE 46340)

-----------------------------------------------------------------------------
(* GeodesicDistanceTransform: driptorch/_distance.py                       *)

Rows == 2           \* rows of the input DEM
Cols == 3           \* columns of the input DEM
Scale == 100        \* fixed-point resolution of a distance: 1/Scale cell
MaxSources == 2     \* cells of the source mask

PadWidth == 10      \* dem.pad(10, np.inf)
neighborhood_size == 1

Elevations == {0, 2}        \* finite elevations of a DEM cell
Resolutions == {1, 2}       \* cell sizes res_x
ZMultipliers == {1, 2}      \* z_multiplier

\* cells (i, j) of the input DEM, 0-based as in numpy
DemCells == (0..Rows-1) \X (0..Cols-1)

\* a grid is the sequence of its rows; data[i, j] of numpy is At(data, i, j)
At(data, i, j) == data[i+1][j+1]
NRows(data) == Len(data)
NCols(data) == Len(data[1])

\* Grid.pad(n, fill) with n > 0: n cells of fill on every side
Pad(data, n, fill) ==
    [i \in 1..NRows(data)+2*n |->
        [j \in 1..NCols(data)+2*n |->
            IF i-n \in 1..NRows(data) /\ j-n \in 1..NCols(data)
            THEN data[i-n][j-n] ELSE fill]]

\* Grid.pad(-n): the crop that undoes Pad
Unpad(data, n) ==
    [i \in 1..NRows(data)-2*n |-> [j \in 1..NCols(data)-2*n |-> data[i+n][j+n]]]

\* Grid.like(grid, fill_value)
Like(data, fill) == [i \in 1..NRows(data) |-> [j \in 1..NCols(data) |-> fill]]

\* local_distance_kernel[ii+k, jj+k] = (sqrt(ii^2 + jj^2) * scale)^2
get_local_distance_kernel(ii, jj, scale) == (ii*ii + jj*jj) * scale * scale

\* np.sqrt(dz**2 + kernel) in fixed point; dz is in elevation units
EdgeLength(dz, k2) ==
    LET sq == FAdd(FMul(dz, dz), k2)
    IN  IF IsFinite(sq) THEN ISqrt(sq * Scale * Scale) ELSE sq

\* the offsets (ii, jj) in the order of the two nested range(-k, k+1) loops
Offsets ==
    LET k == neighborhood_size
        w == 2*k + 1
    IN  [n \in 1..w*w |-> <<((n-1) \div w) - k, ((n-1) % w) - k>>]

\* neighbor_distance of lines 167-171 for the neighbor at offset (ii, jj)
NeighborDistance(distance, i, j, ii, jj) ==
    LET dz == FSub(At(dem, i, j), At(dem, i+ii, j+jj))
    IN  FAdd(distance, EdgeLength(dz, get_local_distance_kernel(ii, jj, res_x)))

\* mutant: the test of line 176 with the operands exchanged
ImprovesReversed(neighbor_distance, c) == FLt(c, neighbor_distance)

\* the test of line 176
Improves(neighbor_distance, c) == FLt(neighbor_distance, c)

\* one pass of the body of the loops of _evaluate_neighbors, lines 166-178
RelaxNeighbor(st, distance, i, j, o) ==
    LET ni == i + o[1]
        nj == j + o[2]
        neighbor_distance == NeighborDistance(distance, i, j, o[1], o[2])
    IN  IF Improves(neighbor_distance, At(st.cost, ni, nj))
        THEN [cost |-> [st.cost EXCEPT ![ni+1][nj+1] = neighbor_distance],
              pq   |-> st.pq \cup {<<neighbor_distance, ni, nj>>}]
        ELSE st

RECURSIVE EvaluateFrom(_, _, _, _, _)
EvaluateFrom(st, distance, i, j, n) ==
    IF n > Len(Offsets) THEN st
    ELSE EvaluateFrom(RelaxNeighbor(st, distance, i, j, Offsets[n]),
                      distance, i, j, n + 1)

\* _evaluate_neighbors(distance, i, j)
evaluate_neighbors(st, distance, i, j) == EvaluateFrom(st, distance, i, j, 1)

\* tuple order of heapq: (distance, i, j) lexicographically
TupleLess(a, b) ==
    \/ a[1] < b[1]
    \/ a[1] = b[1] /\ a[2] < b[2]
    \/ a[1] = b[1] /\ a[2] = b[2] /\ a[3] < b[3]

\* Heap.pop: heapq.heappop, the least entry
HeapMin(q) == CHOOSE e \in q : \A f \in q : f = e \/ TupleLess(e, f)

\* mutant: the test of line 194 with < for <=
NotStaleStrict(distance, c) == FLt(distance, c)

\* the test of line 194 that lets a popped entry be expanded
NotStale(distance, c) == FLe(distance, c)

\* self.dem.data *= z_multiplier, lines 87-88
Multiplied(data, zm) ==
    IF zm # 1
    THEN [i \in 1..NRows(data) |-> [j \in 1..NCols(data) |-> FMul(data[i][j], zm)]]
    ELSE data

\* mutant: the cost grid without line 96
InitialCostNoSource(like, mask) == like

\* the cost grid of lines 95-96: +inf, and 0 on the source mask
InitialCost(like, mask) ==
    [i \in 1..NRows(like) |->
        [j \in 1..NCols(like) |-> IF <<i-1, j-1>> \in mask THEN 0 ELSE like[i][j]]]

\* the entries of lines 106-111: (0, i, j) for every source cell
InitialQueue(mask) == {<<0, c[1], c[2]>> : c \in mask}

\* the DEMs: a finite elevation in every cell, or one full row or one full
\* column of no-data cells (np.inf) across it
NoDataSets ==
    {{}} \cup {{c \in DemCells : c[1] = r} : r \in 0..Rows-1}
         \cup {{c \in DemCells : c[2] = k} : k \in 0..Cols-1}

\* the source masks draw_line can leave on the DEM: up to MaxSources cells
SourceMasks == {m \in SUBSET DemCells : m # {} /\ Cardinality(m) <= MaxSources}

\* GeodesicDistanceTransform.__init__ on a DEM, a source mask, a cell size
\* and a z_multiplier
GDTInit ==
    \E nodata \in NoDataSets, src \in SourceMasks,
       res \in Resolutions, zm \in ZMultipliers :
      \E elev \in [DemCells \ nodata -> Elevations] :
        /\ dem = Multiplied(
                   Pad([i \in 1..Rows |-> [j \in 1..Cols |->
                          IF <<i-1, j-1>> \in nodata THEN Inf ELSE elev[<<i-1, j-1>>]]],
                       PadWidth, Inf), zm)
        /\ source = {<<c[1]+PadWidth, c[2]+PadWidth>> : c \in src}
        /\ res_x = res
        /\ cost_distance = InitialCost(Like(dem, Inf), source)
        /\ PQ = InitialQueue(source)
        /\ gpc = "solve"
        /\ result = <<>>

\* one iteration of the while loop of solve(), lines 191-195
SolveStep ==
    /\ gpc = "solve"
    /\ PQ # {}
    /\ LET e == HeapMin(PQ)
           distance == e[1]
           i == e[2]
           j == e[3]
           st == [cost |-> cost_distance, pq |-> PQ \ {e}]
           nx == IF NotStale(distance, At(cost_distance, i, j))
                 THEN evaluate_neighbors(st, distance, i, j)
                 ELSE st
       IN  /\ cost_distance' = nx.cost
           /\ PQ' = nx.pq
    /\ UNCHANGED <<dem, source, res_x, gpc, result>>

\* the value line 198 leaves in a cell of the cost grid
Unreached(v) == IF v = Inf THEN 0 ELSE v

\* the end of solve(), lines 197-199
SolveReturn ==
    /\ gpc = "solve"
    /\ PQ = {}
    /\ cost_distance' =
         [i \in 1..NRows(cost_distance) |-> [j \in 1..NCols(cost_distance) |->
             Unreached(cost_distance[i][j])]]
    /\ result' = Unpad(cost_distance', PadWidth)
    /\ gpc' = "done"
    /\ UNCHANGED <<dem, source, res_x, PQ>>

-----------------------------------------------------------------------------
(* TemporalPropagator: driptorch/pattern.py                                *)
(*                                                                         *)
(* The paths lie on lines parallel to the x axis, so a LineString is the   *)
(* sequence of the x coordinates of its vertices; its first segment has a  *)
(* positive length.  A time is an integer number of 1/TimeScale seconds.   *)

MaxHeats == 2       \* heats of a pattern
MaxIgniters == 2    \* igniters of a crew

Velocities == {1, 2}        \* igniter velocities (m/s)
Spacings == {0, 2}          \* stagger spacing (m)
HeatDelays == {0, 3}        \* time_offset_heat (s)
StartOffsets == {-3, 0, 3}  \* first vertex of an igniter, along the heat's travel
LegGap == 1                 \* gap between two legs of a line (m)

\* the legs of one line of a heat: the segment lengths of each leg
Shapes == { << <<2>> >>, << <<1, 0, 3>> >>, << <<1>>, <<2>> >> }

RECURSIVE SetProduct(_)
SetProduct(S) ==
    IF S = {} THEN 1 ELSE LET x == CHOOSE y \in S : TRUE IN x * SetProduct(S \ {x})

\* every d / velocity is a whole number of 1/TimeScale seconds
TimeScale == SetProduct(Velocities)

\* d / velocity
Div(d, velocity) == (d * TimeScale) \div velocity

Sign(x) == IF x > 0 THEN 1 ELSE IF x < 0 THEN -1 ELSE 0

RECURSIVE SumSeq(_)
SumSeq(q) == IF q = <<>> THEN 0 ELSE q[1] + SumSeq(Tail(q))

\* np.linalg.norm(xy - next_xy) of the n-th segment of a LineString
SegmentLength(g, n) == Abs(g[n+1] - g[n])

\* LineString.length
Length(g) == SumSeq([n \in 1..Len(g)-1 |-> SegmentLength(g, n)])

\* LineString.distance between two lines on one axis
GeomDistance(g, h) ==
    LET lo1 == SetMin(Range(g))
        hi1 == SetMax(Range(g))
        lo2 == SetMin(Range(h))
        hi2 == SetMax(Range(h))
    IN  IF lo2 > hi1 THEN lo2 - hi1 ELSE IF lo1 > hi2 THEN lo1 - hi2 ELSE 0

Rows_ == 1..Len(paths)

\* an unset gap_length or dash_length
None == 0 - 1

\* an igniter that lays a continuous line
ContinuousIgniter(velocity) ==
    [velocity |-> velocity, gap_length |-> None, dash_length |-> None]

\* self.ignition_crew[j]
Igniter(j) == crew[j+1]

\* the rows self.paths.loc[...] selects, in the order of the sorted frame
RowsOf(i, j) == {r \in Rows_ : paths[r].heat = i /\ paths[r].igniter = j}
RowsOfHeat(i) == {r \in Rows_ : paths[r].heat = i}
LegRow(i, j, k) == CHOOSE r \in RowsOf(i, j) : paths[r].leg = k
FirstRow(i, j) == SetMin(RowsOf(i, j))

\* _get_offset(prev_igniter, cur_igniter, spacing, velocity), lines 532-556
get_offset(prev_geom, cur_geom, spacing, velocity) ==
    LET a_vec == cur_geom[1] - prev_geom[1]
        b_vec == prev_geom[2] - prev_geom[1]
        offset_distance == a_vec * Sign(b_vec)
    IN  Div(spacing + offset_distance, velocity)

\* a variant that takes the earliest end of the previous heat
PrevHeatMinEnd(et, i) == SetMin({et[r] : r \in RowsOfHeat(i - 1)})

\* the maximum end time of the previous heat, lines 449-451
PrevHeatMaxEnd(et, i) == SetMax({et[r] : r \in RowsOfHeat(i - 1)})

\* the return trip of line 458
ReturnTrip(g, velocity) == Div(Length(g), velocity)

\* the start time lines 421-492 give row r, from the columns st and et
BranchStart(st, et, r) ==
    LET i == paths[r].heat
        j == paths[r].igniter
        k == paths[r].leg
        velocity == Igniter(j).velocity
    IN  IF k # 0
        THEN LET prev_leg == LegRow(i, j, k - 1)
                 distance == GeomDistance(paths[prev_leg].geometry, paths[r].geometry)
             IN  et[prev_leg] + Div(distance, velocity)
        ELSE IF i # 0 /\ j = 0
        THEN PrevHeatMaxEnd(et, i)
             + (IF cfg.return_trip THEN ReturnTrip(paths[r].geometry, velocity) ELSE 0)
        ELSE IF j # 0
        THEN LET cur_igniter == FirstRow(i, j)
                 prev_igniter == FirstRow(i, j - 1)
             IN  st[prev_igniter]
                 + get_offset(paths[prev_igniter].geometry,
                              paths[cur_igniter].geometry, cfg.spacing, velocity)
        ELSE 0

\* the heat interval of lines 495-496
HeatOffset(i) == IF i > 0 THEN cfg.time_offset_heat * TimeScale ELSE 0

\* one pass of the loop of _init_path_time, lines 411-503
InitPathTimeRow ==
    /\ tpc = "init_path_time"
    /\ row <= Len(paths)
    /\ LET s == BranchStart(start_time, end_time, row) + HeatOffset(paths[row].heat)
           e == s + Div(Length(paths[row].geometry), Igniter(paths[row].igniter).velocity)
       IN  /\ start_time' = [start_time EXCEPT ![row] = s]
           /\ end_time' = [end_time EXCEPT ![row] = e]
    /\ row' = row + 1
    /\ UNCHANGED <<paths, crew, cfg, times, tpc>>

\* the amount lines 508-511 take off every start and end time
ShiftAmount(st) == SetMin(Range(st))

\* the end of _init_path_time, lines 505-511
ShiftToZero ==
    /\ tpc = "init_path_time"
    /\ row > Len(paths)
    /\ LET min_start_time == ShiftAmount(start_time)
       IN  IF min_start_time # 0
           THEN /\ start_time' = [r \in Rows_ |-> start_time[r] - min_start_time]
                /\ end_time' = [r \in Rows_ |-> end_time[r] - min_start_time]
           ELSE UNCHANGED <<start_time, end_time>>
    /\ tpc' = "sync_end_time"
    /\ UNCHANGED <<paths, crew, cfg, times, row>>

\* a variant that synchronises a heat on its earliest end
HeatMinEnd(et, i) == SetMin({et[r] : r \in RowsOfHeat(i)})

\* max_end_time of line 571 for the heat i
HeatMaxEnd(et, i) == SetMax({et[r] : r \in RowsOfHeat(i)})

\* lines 392-393 of forward() and _sync_end_time, lines 558-579
SyncEndTime ==
    /\ tpc = "sync_end_time"
    /\ IF cfg.sync_end_time
       THEN /\ start_time' =
                 [r \in Rows_ |->
                    start_time[r] + (HeatMaxEnd(end_time, paths[r].heat) - end_time[r])]
            /\ end_time' = [r \in Rows_ |-> HeatMaxEnd(end_time, paths[r].heat)]
       ELSE UNCHANGED <<start_time, end_time>>
    /\ tpc' = "arrival"
    /\ UNCHANGED <<paths, crew, cfg, times, row>>

\* a variant that takes the signed length of the segment
SignedSegmentTime(g, n, velocity) == Div(g[n+1] - g[n], velocity)

\* meters / velocity of line 621 for the n-th segment
SegmentTime(g, n, velocity) == Div(SegmentLength(g, n), velocity)

\* _lines, lines 597-624: the arrival time at the first n vertices
RECURSIVE LinesUpTo(_, _, _, _)
LinesUpTo(g, start, velocity, n) ==
    IF n = 1 THEN <<start>>
    ELSE LET before == LinesUpTo(g, start, velocity, n - 1)
         IN  Append(before, before[n-1] + SegmentTime(g, n - 1, velocity))

lines(g, start, velocity) == LinesUpTo(g, start, velocity, Len(g))

\* the test of line 588 on the igniter of row r
IsContinuous(cur_igniter) ==
    cur_igniter.gap_length = None /\ cur_igniter.dash_length = None

\* _compute_arrival_times, lines 581-595, for paths that all take the
\* branch of line 589
ComputeArrivalTimes ==
    /\ tpc = "arrival"
    /\ \A r \in Rows_ : IsContinuous(Igniter(paths[r].igniter))
    /\ times' = [r \in Rows_ |->
                   lines(paths[r].geometry, start_time[r],
                         Igniter(paths[r].igniter).velocity)]
    /\ tpc' = "done"
    /\ UNCHANGED <<paths, crew, cfg, start_time, end_time, row>>

\* the travel direction of the lines of heat i: it turns from heat to heat
HeatDirection(i) == IF i % 2 = 0 THEN 1 ELSE -1

\* the vertices of a leg that starts at x, with the segment lengths segs
RECURSIVE LegCoords(_, _, _)
LegCoords(x, dir, segs) ==
    IF segs = <<>> THEN <<x>>
    ELSE <<x>> \o LegCoords(x + dir * segs[1], dir, Tail(segs))

\* the rows of one line: legs k, k+1, ... of a shape, the first starting at x
RECURSIVE LineRows(_, _, _, _, _)
LineRows(i, j, k, x, legs) ==
    IF legs = <<>> THEN <<>>
    ELSE LET g == LegCoords(x, HeatDirection(i), legs[1])
         IN  <<[heat |-> i, igniter |-> j, leg |-> k, geometry |-> g]>>
             \o LineRows(i, j, k + 1, g[Len(g)] + HeatDirection(i) * LegGap, Tail(legs))

\* the rows of the frame sorted by heat, igniter, leg (lines 384-386): heats
\* 0..nh-1 of n igniters each, lay[i][j] the shape and the start of a line
RECURSIVE FrameRows(_, _, _, _, _)
FrameRows(nh, n, lay, i, j) ==
    IF i >= nh THEN <<>>
    ELSE IF j >= n THEN FrameRows(nh, n, lay, i + 1, 0)
    ELSE LineRows(i, j, 0, HeatDirection(i) * lay[i+1][j+1].start, lay[i+1][j+1].shape)
         \o FrameRows(nh, n, lay, i, j + 1)

\* the lines of one heat of n igniters: the first igniter starts at 0
HeatLayouts(n) ==
    {h \in [1..n -> [shape : Shapes, start : StartOffsets]] : h[1].start = 0}

\* forward() up to line 386: the frame, the crew and the new columns
TPInit ==
    \E n \in 1..MaxIgniters, nh \in 1..MaxHeats :
      \E lay \in [1..nh -> HeatLayouts(n)],
         vel \in [1..n -> Velocities],
         sp \in Spacings, sync \in BOOLEAN, rt \in BOOLEAN, delay \in HeatDelays :
        /\ paths = FrameRows(nh, n, lay, 0, 0)
        /\ crew = [j \in 1..n |-> ContinuousIgniter(vel[j])]
        /\ cfg = [spacing |-> sp, sync_end_time |-> sync, return_trip |-> rt,
                  time_offset_heat |-> delay]
        /\ start_time = [r \in 1..Len(paths) |-> 0]
        /\ end_time = [r \in 1..Len(paths) |-> 0]
        /\ times = [r \in 1..Len(paths) |-> <<>>]
        /\ row = 1
        /\ tpc = "init_path_time"

-----------------------------------------------------------------------------
(* Pattern: driptorch/pattern.py                                           *)
(*                                                                         *)
(* objs[id] holds the attributes of the Pattern object id; a name of the   *)
(* caller is an id.  Times are in seconds.                                 *)

MaxObjects == 3     \* Pattern objects created in a run

Epsgs == {32610, 32611}
TimeOffsets == {0, 3}

\* path parameter dictionaries, as the propagator or a stored pattern gives
\* them: the second has its first ignition at time 1
PathDicts ==
    { [heat |-> <<0>>, igniter |-> <<0>>, leg |-> <<0>>,
       times |-> << <<0, 2>> >>,
       geometry |-> << [type |-> "LineString", coordinates |-> <<0, 2>>] >>],
      [heat |-> <<0>>, igniter |-> <<0>>, leg |-> <<0>>,
       times |-> << <<1, 3>> >>,
       geometry |-> << [type |-> "LineString", coordinates |-> <<5, 3>>] >>],
      [heat |-> <<0, 0>>, igniter |-> <<0, 1>>, leg |-> <<0, 0>>,
       times |-> << <<0, 1>>, <<2, 4>> >>,
       geometry |-> << [type |-> "LineString", coordinates |-> <<0, 1>>],
                       [type |-> "LineString", coordinates |-> <<2, 4>>] >>] }

\* shapely.geometry.shape of a GeoJSON mapping, and __geo_interface__
shape(x) == x.coordinates
geo_interface(g) == [type |-> "LineString", coordinates |-> g]

\* ak.max and ak.min of a jagged array
AkMax(t) == SetMax(UNION {Range(t[n]) : n \in 1..Len(t)})
AkMin(t) == SetMin(UNION {Range(t[n]) : n \in 1..Len(t)})

\* Pattern.__init__, lines 61-76
NewPattern(heat, igniter, leg, t, geometry, epsg) ==
    [heat |-> heat, igniter |-> igniter, leg |-> leg, times |-> t,
     geometry |-> geometry, epsg |-> epsg,
     elapsed_time |-> AkMax(t) - AkMin(t)]

\* Pattern.from_dict, lines 79-104
from_dict(paths_dict, epsg) ==
    NewPattern(paths_dict.heat, paths_dict.igniter, paths_dict.leg, paths_dict.times,
               [n \in 1..Len(paths_dict.geometry) |-> shape(paths_dict.geometry[n])],
               epsg)

NoCall == [op |-> "none"]

\* a caller builds a Pattern with the constructor
Construct ==
    /\ Len(objs) < MaxObjects
    /\ \E d \in PathDicts, epsg \in Epsgs :
         /\ objs' = Append(objs,
                NewPattern(d.heat, d.igniter, d.leg, d.times,
                           [n \in 1..Len(d.geometry) |-> shape(d.geometry[n])], epsg))
         /\ call' = [op |-> "init", result |-> Len(objs) + 1]

\* a caller builds a Pattern with from_dict
FromDict ==
    /\ Len(objs) < MaxObjects
    /\ \E d \in PathDicts, epsg \in Epsgs :
         /\ objs' = Append(objs, from_dict(d, epsg))
         /\ call' = [op |-> "from_dict", result |-> Len(objs) + 1]

\* the merged pattern of lines 303-324
MergedPattern(self, pattern, time_offset) ==
    LET delay == AkMax(self.times) + time_offset
        delayed_times ==
            [n \in 1..Len(pattern.times) |->
                [m \in 1..Len(pattern.times[n]) |-> delay + pattern.times[n][m]]]
        merged_dict ==
            [heat |-> self.heat \o pattern.heat,
             igniter |-> self.igniter \o pattern.igniter,
             leg |-> self.leg \o pattern.leg,
             times |-> self.times \o delayed_times,
             geometry |-> [n \in 1..Len(self.geometry) + Len(pattern.geometry) |->
                             geo_interface((self.geometry \o pattern.geometry)[n])]]
        merged_pattern == from_dict(merged_dict, self.epsg)
    IN  [merged_pattern EXCEPT
            !.elapsed_time = self.elapsed_time + time_offset + pattern.elapsed_time]

\* a.merge(b, time_offset, inplace), lines 277-333: `self = merged_pattern`
\* binds the local name self, the object a stays as it is
Merge ==
    /\ Len(objs) < MaxObjects
    /\ \E a \in 1..Len(objs), b \in 1..Len(objs),
          time_offset \in TimeOffsets, inplace \in BOOLEAN :
         IF objs[b].epsg # objs[a].epsg
         THEN /\ call' = [op |-> "merge", receiver |-> a, pattern |-> b,
                          inplace |-> inplace, raised |-> TRUE,
                          before |-> objs[a], result |-> 0]
              /\ UNCHANGED objs
         ELSE /\ objs' = Append(objs, MergedPattern(objs[a], objs[b], time_offset))
              /\ call' = [op |-> "merge", receiver |-> a, pattern |-> b,
                          inplace |-> inplace, raised |-> FALSE,
                          before |-> objs[a], result |-> Len(objs) + 1]

PatInit == objs = <<>> /\ call = NoCall

-----------------------------------------------------------------------------
(* Igniter and IgnitionCrew: driptorch/personnel.py                        *)
(*                                                                         *)
(* Velocities and intervals are exact rationals [n, d] in lowest terms     *)
(* with d > 0.                                                             *)

MaxCrew == 3        \* add_igniter calls on a crew

RECURSIVE Gcd(_, _)
Gcd(a, b) == IF b = 0 THEN a ELSE Gcd(b, a % b)

\* the number n / d
Rat(n, d) ==
    LET g == Gcd(Abs(n), Abs(d))
        sgn == IF d < 0 THEN -1 ELSE 1
    IN  [n |-> sgn * (n \div g), d |-> sgn * (d \div g)]

RatZero == Rat(0, 1)

\* a / b, b not 0
RatDiv(a, b) == Rat(a.n * b.d, a.d * b.n)

\* 1.0 / a, a not 0
RatInv(a) == Rat(a.d, a.n)

IgniterVelocities == {Rat(1, 1), Rat(2, 1)}
IgniterIntervals == {RatZero, Rat(1, 1), Rat(2, 1), Rat(-2, 1)}
IntervalUnits == {"meters", "seconds"}

\* Igniter.__init__, lines 19-44
NewIgniter(velocity, interval, interval_units) ==
    [velocity |-> velocity,
     interval_units |-> interval_units,
     interval |-> IF interval = RatZero THEN RatZero
                  ELSE IF interval_units = "seconds"
                       THEN RatInv(RatDiv(interval, velocity))
                       ELSE RatInv(interval)]

\* the igniters a caller can build
Igniters ==
    {NewIgniter(v, i, u) : v \in IgniterVelocities, i \in IgniterIntervals,
                           u \in IntervalUnits}

\* json.dumps(self.__dict__): the members in the order of their assignment
igniter_to_json(g) ==
    << <<"velocity", g.velocity>>, <<"interval_units", g.interval_units>>,
       <<"interval", g.interval>> >>

\* the value of a key of a JSON object
JsonGet(obj, key) == (CHOOSE m \in Range(obj) : m[1] = key)[2]

\* Igniter.from_json, line 57: Igniter(**json.loads(json_str))
igniter_from_json(json_str) ==
    NewIgniter(JsonGet(json_str, "velocity"), JsonGet(json_str, "interval"),
               JsonGet(json_str, "interval_units"))

\* None of _velocity_req and _interval_req
NoReq == [n |-> 0, d |-> 0]

\* the truth value Python gives a requirement: None and 0 are false
Truthy(req) == req # NoReq /\ req # RatZero

\* IgnitionCrew.__init__, lines 86-101
NewCrew(same_velocity, same_interval) ==
    [same_velocity |-> same_velocity, same_interval |-> same_interval,
     velocity_req |-> NoReq, interval_req |-> NoReq, igniters |-> <<>>]

\* _validate_velocity, lines 195-200: the crew after it and whether it raised
validate_velocity(c, velocity) ==
    IF c.same_velocity
    THEN IF Truthy(c.velocity_req)
         THEN [raised |-> velocity # c.velocity_req, crew |-> c]
         ELSE [raised |-> FALSE, crew |-> [c EXCEPT !.velocity_req = velocity]]
    ELSE [raised |-> FALSE, crew |-> c]

\* _validate_interval, lines 213-218
validate_interval(c, interval) ==
    IF c.same_interval
    THEN IF Truthy(c.interval_req)
         THEN [raised |-> interval # c.interval_req, crew |-> c]
         ELSE [raised |-> FALSE, crew |-> [c EXCEPT !.interval_req = interval]]
    ELSE [raised |-> FALSE, crew |-> c]

\* add_igniter, lines 158-170
add_igniter(c, igniter) ==
    LET v == validate_velocity(c, igniter.velocity)
    IN  IF v.raised THEN v
        ELSE LET i == validate_interval(v.crew, igniter.interval)
             IN  IF i.raised THEN i
                 ELSE [raised |-> FALSE,
                       crew |-> [i.crew EXCEPT !.igniters = Append(@, igniter)]]

\* the loop of from_list, lines 117-118, from the crew c on
RECURSIVE AddAll(_, _)
AddAll(c, igniters) ==
    IF igniters = <<>> THEN [raised |-> FALSE, crew |-> c]
    ELSE LET r == add_igniter(c, igniters[1])
         IN  IF r.raised THEN r ELSE AddAll(r.crew, Tail(igniters))

\* IgnitionCrew.from_list, lines 104-120
from_list(igniters, same_velocity, same_interval) ==
    AddAll(NewCrew(same_velocity, same_interval), igniters)

\* IgnitionCrew.to_json, lines 180-182
crew_to_json(c) ==
    << <<"same_velocity", c.same_velocity>>, <<"same_interval", c.same_interval>>,
       <<"igniters", [n \in 1..Len(c.igniters) |-> igniter_to_json(c.igniters[n])]>> >>

\* IgnitionCrew.from_json, lines 151-156
crew_from_json(json_str) ==
    LET crew_dict == json_str
        dicts == JsonGet(crew_dict, "igniters")
    IN  from_list([n \in 1..Len(dicts) |-> igniter_from_json(dicts[n])],
                  JsonGet(crew_dict, "same_velocity"),
                  JsonGet(crew_dict, "same_interval"))

\* a caller builds an empty crew
PersInit ==
    /\ \E sv \in BOOLEAN, si \in BOOLEAN : icrew = NewCrew(sv, si)
    /\ pcall = NoCall

\* icrew.add_igniter(g)
AddIgniter ==
    /\ Len(icrew.igniters) < MaxCrew
    /\ \E g \in Igniters :
         LET r == add_igniter(icrew, g)
         IN  /\ icrew' = r.crew
             /\ pcall' = [op |-> "add_igniter", igniter |-> g, raised |-> r.raised,
                          before |-> icrew]

\* Igniter.from_json(g.to_json())
IgniterJson ==
    /\ \E g \in Igniters :
         pcall' = [op |-> "igniter_json", igniter |-> g,
                   result |-> igniter_from_json(igniter_to_json(g))]
    /\ UNCHANGED icrew

\* IgnitionCrew.from_json(icrew.to_json())
CrewJson ==
    /\ LET r == crew_from_json(crew_to_json(icrew))
       IN  pcall' = [op |-> "crew_json", raised |-> r.raised, result |-> r.crew]
    /\ UNCHANGED icrew

-----------------------------------------------------------------------------
(* FiringBase, Strip and Flank: driptorch/firing/_base.py, strip.py,       *)
(* flank.py; BurnUnit: driptorch/unit.py                                   *)
(*                                                                         *)
(* A burn unit is a rectangle with integer corners, a point is <<x, y>>,   *)
(* a line the sequence of its two end points; firing directions are        *)
(* multiples of 90 degrees, so every rotation is exact.                    *)

MaxRuns == 2        \* generate_pattern calls on one technique object
MaxExtent == 2      \* half of the longest side of the burn unit

FiringDirections == {0, 90, 180, 270}
Depths == {1, 2}
HeatDepths == {0, 3}
Sides == {"left", "right"}
Techniques == {"Strip", "Flank"}

\* shapely.affinity.rotate of a point by angle degrees (counter-clockwise)
\* about origin
RotatePoint(p, angle, origin) ==
    LET dx == p[1] - origin[1]
        dy == p[2] - origin[2]
        a == angle % 360
    IN  IF a = 0 THEN p
        ELSE IF a = 90 THEN <<origin[1] - dy, origin[2] + dx>>
        ELSE IF a = 180 THEN <<origin[1] - dx, origin[2] - dy>>
        ELSE <<origin[1] + dy, origin[2] - dx>>

\* shapely.affinity.rotate of a polygon given by its vertices
RotatePolygon(polygon, angle, origin) ==
    {RotatePoint(p, angle, origin) : p \in polygon}

\* BurnUnit.__init__, lines 50-64, for the rectangle [0, 2a] x [0, 2b]
NewBurnUnit(a, b, firing_direction) ==
    [polygon |-> {<<0, 0>>, <<2*a, 0>>, <<2*a, 2*b>>, <<0, 2*b>>},
     firing_direction |-> firing_direction,
     centroid |-> <<a, b>>,
     firing_alignment_angle |-> (firing_direction - 90) % 360]

\* BurnUnit._align, lines 114-122
align(unit) ==
    IF unit.firing_alignment_angle # 0
    THEN [unit EXCEPT !.polygon =
              RotatePolygon(unit.polygon, unit.firing_alignment_angle, unit.centroid)]
    ELSE unit

\* BurnUnit.bounds, line 265, as x_min, y_min, x_max, y_max
bounds(unit) ==
    [x_min |-> SetMin({p[1] : p \in unit.polygon}),
     y_min |-> SetMin({p[2] : p \in unit.polygon}),
     x_max |-> SetMax({p[1] : p \in unit.polygon}),
     y_max |-> SetMax({p[2] : p \in unit.polygon})]

\* the angle _base.py line 88 reads from the burn unit
wind_alignment_angle(unit) == unit.firing_alignment_angle

\* the start positions of strip.py lines 102-116 (flank.py 94-108) from
\* cur on, i positions before it
RECURSIVE StartPositions(_, _, _, _, _, _)
StartPositions(cur, hi, i, n, depth, heat_depth) ==
    IF ~(cur < hi) THEN <<>>
    ELSE <<cur>> \o StartPositions(
             IF heat_depth # 0 /\ (i + 1) % n = 0 THEN cur + heat_depth ELSE cur + depth,
             hi, i + 1, n, depth, heat_depth)

\* s[::-1]
Reverse(s) == [k \in 1..Len(s) |-> s[Len(s) + 1 - k]]

\* the rows lines 124-158 of strip.py append for the positions x_range[i..]
RECURSIVE StripRows(_, _, _, _, _, _, _)
StripRows(x_range, i, b, n, cur_heat, cur_igniter, direction_toggle) ==
    IF i > Len(x_range) THEN <<>>
    ELSE LET x == x_range[i]
             line == IF direction_toggle THEN << <<x, b.y_min>>, <<x, b.y_max>> >>
                     ELSE << <<x, b.y_max>>, <<x, b.y_min>> >>
             wrap == i % n = 0
         IN  <<[heat |-> cur_heat, igniter |-> cur_igniter, leg |-> 0, geometry |-> line]>>
             \o StripRows(x_range, i + 1, b, n,
                          IF wrap THEN cur_heat + 1 ELSE cur_heat,
                          IF wrap THEN 0 ELSE cur_igniter + 1,
                          IF wrap THEN ~direction_toggle ELSE direction_toggle)

\* Strip._init_paths, lines 76-160
strip_init_paths(unit, n, kw) ==
    LET b == bounds(unit)
        x_range == StartPositions(b.x_min + kw.depth, b.x_max, 0, n, kw.depth, kw.heat_depth)
    IN  StripRows(x_range, 1, b, n, 0, 0, kw.side # "left")

\* the rows lines 119-147 of flank.py append for the positions y_range[i..]
RECURSIVE FlankRows(_, _, _, _, _, _)
FlankRows(y_range, i, b, n, cur_heat, cur_igniter) ==
    IF i > Len(y_range) THEN <<>>
    ELSE LET y == y_range[i]
             line == << <<b.x_min, y>>, <<b.x_max, y>> >>
             wrap == i % n = 0
         IN  <<[heat |-> cur_heat, igniter |-> cur_igniter, leg |-> 0, geometry |-> line]>>
             \o FlankRows(y_range, i + 1, b, n,
                          IF wrap THEN cur_heat + 1 ELSE cur_heat,
                          IF wrap THEN 0 ELSE cur_igniter + 1)

\* Flank._init_paths, lines 62-149, with a depth given
flank_init_paths(unit, n, kw) ==
    LET b == bounds(unit)
        up == StartPositions(b.y_min + kw.depth, b.y_max, 0, n, kw.depth, kw.heat_depth)
        y_range == IF kw.side = "left" THEN Reverse(up) ELSE up
    IN  FlankRows(y_range, 1, b, n, 0, 0)

\* FiringBase._unalign, lines 73-93
unalign_lines(unit, rows) ==
    [k \in 1..Len(rows) |->
        [rows[k] EXCEPT !.geometry =
            [m \in 1..Len(@) |->
                RotatePoint(@[m], -wind_alignment_angle(unit), unit.centroid)]]]

\* FiringBase._generate_pattern, lines 33-45: the burn unit it leaves in
\* the technique object and the paths it hands to the propagator
generate_paths(t, kw) ==
    LET unit == align(t.burn_unit)
        init_paths == IF t.class = "Strip" THEN strip_init_paths(unit, t.crew_size, kw)
                      ELSE flank_init_paths(unit, t.crew_size, kw)
    IN  [burn_unit |-> unit, paths |-> unalign_lines(unit, init_paths)]

\* FiringBase.__init__, lines 22-23, and the arguments of the calls to come
FiringInit ==
    /\ \E c \in Techniques, a \in 1..MaxExtent, b \in 1..MaxExtent,
          fd \in FiringDirections, n \in 1..MaxIgniters :
         tech = [class |-> c, burn_unit |-> NewBurnUnit(a, b, fd), crew_size |-> n]
    /\ gargs \in [depth : Depths, heat_depth : HeatDepths, side : Sides]
    /\ runs = <<>>

\* tech.generate_pattern(**gargs)
GeneratePattern ==
    /\ Len(runs) < MaxRuns
    /\ LET r == generate_paths(tech, gargs)
       IN  /\ tech' = [tech EXCEPT !.burn_unit = r.burn_unit]
           /\ runs' = Append(runs, r.paths)
    /\ UNCHANGED gargs

-----------------------------------------------------------------------------
(* CostDistance.iterate after its Dijkstra loop:                           *)
(* driptorch/firing/strip_contour.py                                       *)
(*                                                                         *)
(* A contour is known by what its intersection with the burn unit is: no   *)
(* isoline at all ("none"), an isoline that misses the unit ("miss"), or   *)
(* an isoline that crosses it in one or two parts.  The part p of the      *)
(* contour of level index m is the geometry <<m, p>>.                      *)

MaxCost == 6        \* largest finite maximum of the cost raster
MaxLevels == 9      \* levels built for a raster with an unreached cell

IgniterDepths == {1, 2}
ContourHeatDepths == {1, 3}
ContourKinds == {"none", "miss", "one", "two"}

\* the type shapely gives an empty intersection depends on its GEOS
EmptyTypes == {"LineString", "MultiLineString", "GeometryCollection"}

\* a variant that steps by the heat depth first
LevelsPassHeatFirst(lv, num_igniters, igniter_depth, heat_depth) ==
    LET RECURSIVE inner(_, _)
        inner(l, i) ==
            IF i >= num_igniters - 1 THEN l
            ELSE inner(Append(l, l[Len(l)] + igniter_depth), i + 1)
        first == Append(lv, lv[Len(lv)] + heat_depth)
    IN  inner(first, 0)

\* one pass of the while loop of lines 347-350
LevelsPass(lv, num_igniters, igniter_depth, heat_depth) ==
    LET RECURSIVE inner(_, _)
        inner(l, i) ==
            IF i >= num_igniters - 1 THEN l
            ELSE inner(Append(l, l[Len(l)] + igniter_depth), i + 1)
        after == inner(lv, 0)
    IN  Append(after, after[Len(after)] + heat_depth)

\* the test of line 347
MoreLevels(lv, max_cost) == FLt(lv[Len(lv)], max_cost)

\* line 346
IterInit ==
    /\ \E n \in 1..MaxIgniters, d \in IgniterDepths, h \in ContourHeatDepths,
          mx \in (0..MaxCost) \cup {Inf}, et \in EmptyTypes :
         iter_args = [num_igniters |-> n, igniter_depth |-> d, heat_depth |-> h,
                      max_cost |-> mx, empty_type |-> et]
    /\ levels = <<iter_args.igniter_depth>>
    /\ contours = <<>>
    /\ path_dict = <<>>
    /\ ipc = "levels"

\* lines 347-350, one pass
LevelsStep ==
    /\ ipc = "levels"
    /\ MoreLevels(levels, iter_args.max_cost)
    /\ Len(levels) < MaxLevels
    /\ levels' = LevelsPass(levels, iter_args.num_igniters,
                            iter_args.igniter_depth, iter_args.heat_depth)
    /\ UNCHANGED <<iter_args, contours, path_dict, ipc>>

\* a variant that opens a heat one contour early
NewHeatEarly(i, num_igniters, current_heat) == (i + 1) \div num_igniters > current_heat

\* the test of line 358 at the contour i (0-based)
NewHeat(i, num_igniters, current_heat) == i \div num_igniters > current_heat

\* lines 354-364: the list heats, from the contour i (0-based) on
RECURSIVE GroupHeats(_, _, _, _, _)
GroupHeats(cs, i, num_igniters, current_heat, acc) ==
    IF i >= Len(cs) THEN acc.heats
    ELSE IF NewHeat(i, num_igniters, current_heat)
         THEN GroupHeats(cs, i + 1, num_igniters, i \div num_igniters,
                         [heats |-> Append(acc.heats, acc.heat_set), heat_set |-> <<i>>])
         ELSE GroupHeats(cs, i + 1, num_igniters, current_heat,
                         [acc EXCEPT !.heat_set = Append(@, i)])

\* lines 371-376: line_list for the contour m, prev the list of the pass
\* before; an intersection that is no line leaves the list as it was
LineList(cs, m, prev, empty_type) ==
    LET kind == cs[m + 1]
    IN  IF kind = "one" THEN << <<m, 0>> >>
        ELSE IF kind = "two" THEN << <<m, 0>>, <<m, 1>> >>
        ELSE IF empty_type = "LineString" THEN << <<m, -1>> >>
        ELSE IF empty_type = "MultiLineString" THEN <<>>
        ELSE prev

\* len(line_.bounds) > 1 of line 379: false for the empty line <<m, -1>>
HasBounds(line_) == line_[2] >= 0

\* whether iterate() turned the polyline it appends at line 383 round: it
\* appends the intersection as shapely returns it, in the direction of the
\* contour, and the extractor orients every contour of the raster alike
Reversed(geometry) == FALSE

\* lines 377-383 for one line_list
LegRows(line_list, i, j) ==
    LET rows == [leg \in 1..Len(line_list) |->
                    [heat |-> i, igniter |-> j, leg |-> leg - 1,
                     geometry |-> line_list[leg]]]
    IN  SelectSeq(rows, LAMBDA r : HasBounds(r.geometry))

\* lines 366-383: the rows appended from the path j of the heat i on; st
\* holds the rows so far, line_list and whether line_list is bound
RECURSIVE HeatRows(_, _, _, _, _, _)
HeatRows(cs, heats, i, j, empty_type, st) ==
    IF st.raised \/ i > Len(heats) THEN st
    ELSE IF j > Len(heats[i]) THEN HeatRows(cs, heats, i + 1, 1, empty_type, st)
    ELSE LET m == heats[i][j]
             kind == cs[m + 1]
         IN  IF kind = "none" THEN HeatRows(cs, heats, i, j + 1, empty_type, st)
             ELSE IF kind = "miss" /\ empty_type = "GeometryCollection" /\ ~st.bound
             THEN [st EXCEPT !.raised = TRUE]
             ELSE LET line_list == LineList(cs, m, st.line_list, empty_type)
                  IN  HeatRows(cs, heats, i, j + 1, empty_type,
                               [rows |-> st.rows \o LegRows(line_list, i - 1, j - 1),
                                line_list |-> line_list, bound |-> TRUE,
                                raised |-> FALSE])

\* the contours get_contours can return for the levels: no isoline at a
\* level that is not below the maximum of the raster
ContoursOf(lv, max_cost) ==
    {cs \in [1..Len(lv) -> ContourKinds] :
        \A m \in 1..Len(lv) : ~FLt(lv[m], max_cost) => cs[m] = "none"}

\* lines 353-385
ExtractPaths ==
    /\ ipc = "levels"
    /\ ~MoreLevels(levels, iter_args.max_cost)
    /\ \E cs \in ContoursOf(levels, iter_args.max_cost) :
         LET heats == GroupHeats(cs, 0, iter_args.num_igniters, 0,
                                 [heats |-> <<>>, heat_set |-> <<>>])
             st == HeatRows(cs, heats, 1, 1, iter_args.empty_type,
                            [rows |-> <<>>, line_list |-> <<>>, bound |-> FALSE,
                             raised |-> FALSE])
         IN  /\ contours' = cs
             /\ path_dict' = st.rows
             /\ ipc' = IF st.raised THEN "raised" ELSE "done"
    /\ UNCHANGED <<iter_args, levels>>

-----------------------------------------------------------------------------
(* CostDistanceDEM.get_neighbors: driptorch/firing/strip_contour.py        *)
(* (the same code is in driptorch/_grid.py, lines 420-462)                 *)

MaxRasterRows == 4
MaxRasterCols == 4

\* the value that marks a removed neighbor
Removed == 0 - 999

\* self.neighbor_kernel, lines 109-112
neighbor_kernel(cols) ==
    <<-cols - 1, -cols, -cols + 1, -1, 1, cols - 1, cols, cols + 1>>

\* self.neighbor_kernel_dists, line 113, in units of 1/Scale cell
Sqrt2 == ISqrt(2 * Scale * Scale)
neighbor_kernel_dists == <<Sqrt2, Scale, Sqrt2, Scale, Scale, Sqrt2, Scale, Sqrt2>>

\* get_index, line 120
get_index(index, cols) == <<index \div cols, index % cols>>

\* the test of line 148 for the first column
AtFirstColumn(col, cols) == col <= cols - 1

\* the kernel positions (0-based) lines 140-155 remove for the cell matcoords
RemovedPositions(matcoords, rows, cols) ==
    (IF matcoords[1] <= 0 THEN {0, 1, 2} ELSE {})
    \cup (IF matcoords[1] >= rows - 1 THEN {5, 6, 7} ELSE {})
    \cup (IF AtFirstColumn(matcoords[2], cols) THEN {0, 3, 5} ELSE {})
    \cup (IF matcoords[2] >= cols - 1 THEN {2, 4, 7} ELSE {})

\* get_neighbors, lines 135-164: the list of (index, neighbor, distance)
get_neighbors(index, rows, cols) ==
    LET matcoords == get_index(index, cols)
        remove == RemovedPositions(matcoords, rows, cols)
        neighborhood == [k \in 1..8 |->
                           IF k - 1 \in remove THEN Removed
                           ELSE neighbor_kernel(cols)[k] + index]
        distances == [k \in 1..8 |->
                        IF k - 1 \in remove THEN Removed ELSE neighbor_kernel_dists[k]]
        to_keep == SelectSeq([k \in 1..8 |-> k], LAMBDA k : neighborhood[k] # Removed)
    IN  [n \in 1..Len(to_keep) |->
            <<index, neighborhood[to_keep[n]], distances[to_keep[n]]>>]

\* CostDistanceDEM.__init__, line 106
NeighborsInit ==
    /\ \E r \in 1..MaxRasterRows, c \in 1..MaxRasterCols : raster = [rows |-> r, cols |-> c]
    /\ ncall = NoCall

\* raster.get_neighbors(index) for a cell of the raster
GetNeighbors ==
    /\ \E index \in 0..(raster.rows * raster.cols - 1) :
         ncall' = [op |-> "get_neighbors", index |-> index,
                   result |-> get_neighbors(index, raster.rows, raster.cols)]
    /\ UNCHANGED raster

-----------------------------------------------------------------------------
(* Strip.generate_pattern and Flank.generate_pattern down to the           *)
(* propagator: driptorch/firing/strip.py, flank.py, _base.py               *)

\* kwargs.get(key, default)
KwGet(kwargs, key, default) == IF key \in DOMAIN kwargs THEN kwargs[key] ELSE default

\* the keyword arguments generate_pattern hands to _generate_pattern:
\* strip.py line 72, flank.py line 60
GenerateKwargs(class, spacing, depth, heat_depth, side, heat_delay) ==
    IF class = "Strip"
    THEN [spacing |-> spacing, depth |-> depth, heat_depth |-> heat_depth,
          side |-> side, heat_delay |-> heat_delay]
    ELSE [spacing |-> spacing, depth |-> depth, heat_depth |-> heat_depth,
          side |-> side, return_trip |-> TRUE, heat_delay |-> heat_delay]

\* the propagator _generate_pattern configures and the delay it passes to
\* forward(), _base.py lines 48-55
PropagatorConfig(kwargs) ==
    [spacing |-> KwGet(kwargs, "spacing", 0),
     sync_end_time |-> KwGet(kwargs, "sync_end_time", FALSE),
     return_trip |-> KwGet(kwargs, "return_trip", FALSE),
     time_offset_heat |-> KwGet(kwargs, "time_offset_heat", 0)]

\* generate_pattern(spacing, depth, heat_depth, side, heat_delay) with the
\* paths laid out by _init_paths, up to line 386 of forward()
GenerateInit ==
    \E class \in Techniques, sp \in Spacings, depth \in Depths, hd \in HeatDepths,
       side \in Sides, delay \in HeatDelays :
      \E n \in 1..MaxIgniters, nh \in 1..MaxHeats :
        \E lay \in [1..nh -> HeatLayouts(n)], vel \in [1..n -> Velocities] :
          /\ gcall = [op |-> "generate_pattern", class |-> class, heat_delay |-> delay,
                      kwargs |-> GenerateKwargs(class, sp, depth, hd, side, delay)]
          /\ paths = FrameRows(nh, n, lay, 0, 0)
          /\ crew = [j \in 1..n |-> ContinuousIgniter(vel[j])]
          /\ cfg = PropagatorConfig(gcall.kwargs)
          /\ start_time = [r \in 1..Len(paths) |-> 0]
          /\ end_time = [r \in 1..Len(paths) |-> 0]
          /\ times = [r \in 1..Len(paths) |-> <<>>]
          /\ row = 1
          /\ tpc = "init_path_time"

\* the steps of propagator.forward() inside the call
GenInitPathTimeRow == InitPathTimeRow /\ UNCHANGED gcall
GenShiftToZero == ShiftToZero /\ UNCHANGED gcall
GenSyncEndTime == SyncEndTime /\ UNCHANGED gcall
GenComputeArrivalTimes == ComputeArrivalTimes /\ UNCHANGED gcall

-----------------------------------------------------------------------------
(* TemporalPropagator._dashes: driptorch/pattern.py lines 626-692          *)

MaxPathLength == 12     \* longest straight path (m)
MaxDash == 3            \* longest dash (m)
MaxGap == 3             \* longest gap (m)
DashLengths == 1..MaxDash
GapLengths == {None} \cup (1..MaxGap)
PathOrigins == {0, 5}
PathDirections == {1, -1}

\* an igniter that lays dashes
DashedIgniter(velocity, gap_length, dash_length) ==
    [velocity |-> velocity, gap_length |-> gap_length, dash_length |-> dash_length]

\* not gap_length
NotGap(gap_length) == gap_length = None \/ gap_length = 0

\* np.arange(0, stop, step)
RECURSIVE arange(_, _, _)
arange(from, stop, step) ==
    IF from < stop THEN <<from>> \o arange(from + step, stop, step) ELSE <<>>

\* the while loop of lines 643-649
RECURSIVE ToggleDistances(_, _, _, _, _)
ToggleDistances(sum_length, toggle, length, gap_length, dash_length) ==
    IF sum_length < length
    THEN <<sum_length>>
         \o ToggleDistances(sum_length + (IF toggle THEN dash_length ELSE gap_length),
                            ~toggle, length, gap_length, dash_length)
    ELSE <<>>

\* lines 637-649
Distances(length, gap_length, dash_length) ==
    IF NotGap(gap_length)
    THEN arange(0, length, dash_length)
    ELSE ToggleDistances(0, TRUE, length, gap_length, dash_length)

\* geometry.interpolate(distance) on a straight path
interpolate(geometry, distance) ==
    LET length == Length(geometry)
        d == IF distance > length THEN length ELSE distance
    IN geometry[1] + Sign(geometry[Len(geometry)] - geometry[1]) * d

\* the start time of segment i of the loop of lines 666-686
RECURSIVE SegmentStart(_, _, _, _)
SegmentStart(point_geoms, i, path_start, velocity) ==
    IF i = 1 THEN path_start
    ELSE SegmentStart(point_geoms, i - 1, path_start, velocity)
         + Div(Abs(point_geoms[i - 1] - point_geoms[i]), velocity)

\* the segments with fire: the loop toggles fire from True at the first
Fired(point_geoms) == {i \in 1..(Len(point_geoms) - 1) : i % 2 = 1}

\* the i-th element of a set of numbers in increasing order
RECURSIVE Sorted(_)
Sorted(S) == IF S = {} THEN <<>> ELSE <<SetMin(S)>> \o Sorted(S \ {SetMin(S)})

\* path_times and line_segs of lines 658-686
DashesOf(line, velocity, gap_length, dash_length) ==
    LET distances == Distances(Length(line.geometry), gap_length, dash_length)
        point_geoms == [k \in 1..Len(distances) |-> interpolate(line.geometry, distances[k])]
        fired == Sorted(Fired(point_geoms))
        begin(i) == SegmentStart(point_geoms, i, line.start_time, velocity)
    IN [times |-> [n \in 1..Len(fired) |->
                     <<begin(fired[n]),
                       begin(fired[n])
                         + Div(Abs(point_geoms[fired[n]] - point_geoms[fired[n] + 1]), velocity)>>],
        geometry |-> [n \in 1..Len(fired) |->
                     <<point_geoms[fired[n]], point_geoms[fired[n] + 1]>>]]

DashesInit ==
    \E length \in 1..MaxPathLength, x \in PathOrigins, dir \in PathDirections,
       velocity \in Velocities, gap_length \in GapLengths, dash_length \in DashLengths,
       s \in HeatDelays :
        /\ dash_igniter = DashedIgniter(velocity, gap_length, dash_length)
        /\ dash_line = [start_time |-> s * TimeScale, geometry |-> <<x, x + dir * length>>]
        /\ dash_row = [times |-> <<>>, geometry |-> <<x, x + dir * length>>]
        /\ dpc = "call"

\* self._dashes(index, path, velocity, gap_length, dash_length)
Dashes ==
    /\ dpc = "call"
    /\ dash_row' = DashesOf(dash_line, dash_igniter.velocity,
                            dash_igniter.gap_length, dash_igniter.dash_length)
    /\ dpc' = "done"
    /\ UNCHANGED <<dash_igniter, dash_line>>

-----------------------------------------------------------------------------
(* The indexed heap: cost_distance.py lines 35-217.  The arrays are        *)
(* functions on 0..size-1.                                                 *)

MaxCapacity == 2        \* largest capacity given to init_heap_data
MaxValue == 3           \* max_value of the heap: values are 0..MaxValue
MaxKey == 2             \* largest finite key
HeapKeys == (1..MaxKey) \cup {Inf}
HeapValues == (0 - 1)..(MaxValue + 1)

\* a << b on numpy integers: a negative shift count gives 0
Shl(a, b) == IF b < 0 THEN 0 ELSE a * 2^b

\* min(a, b)
Min2(a, b) == IF b < a THEN b ELSE a

\* the loop of lines 45-47
RECURSIVE LevelsFor(_, _)
LevelsFor(lvl, capacity) ==
    IF 2^lvl < capacity THEN LevelsFor(lvl + 1, capacity) ELSE lvl

init_heap_data(capacity, max_value) ==
    LET lvls == LevelsFor(0, capacity)
        n == 2^lvls
    IN [keys |-> [i \in 0..(2 * n - 1) |-> Inf],
        values |-> [i \in 0..(n - 1) |-> 0 - 1],
        crossrefs |-> [v \in 0..max_value |-> 0 - 1],
        heap |-> [max_value |-> max_value, levels |-> lvls,
                  min_levels |-> lvls, count |-> 0]]

\* the index itself, not moved to the first of its pair
PairStartSame(i) == i

\* i -= i % 2 == 0
PairStart(i) == IF i % 2 = 0 THEN i - 1 ELSE i

\* the loop of _sift, lvl running from heap[0].levels down to 2
RECURSIVE SiftLoop(_, _, _)
SiftLoop(keys, lvl, i) ==
    IF lvl <= 1 THEN keys
    ELSE LET iplvl == (i - 1) \div 2
         IN SiftLoop([keys EXCEPT ![iplvl] = Min2(keys[i], keys[i + 1])],
                     lvl - 1, PairStart(iplvl))

_sift(keys, heap, i) == SiftLoop(keys, heap.levels, PairStart(i))

\* the loop of _sift_all over range(ilvl, ilvl + n, 2)
RECURSIVE SiftAllLoop(_, _, _, _)
SiftAllLoop(keys, heap, i, stop) ==
    IF i < stop THEN SiftAllLoop(_sift(keys, heap, i), heap, i + 2, stop) ELSE keys

_sift_all(keys, heap) ==
    LET ilvl == Shl(1, heap.levels) - 1
        n == ilvl + 1
    IN SiftAllLoop(keys, heap, ilvl, ilvl + n)

\* returns keys, values and the heap record with its new levels
_resize_levels(keys, values, heap, inc_dec) ==
    LET new_levels == heap.levels + inc_dec
        size == Shl(1, new_levels)
        inew == Shl(1, new_levels) - 1
        iold == Shl(1, heap.levels) - 1
        n == Min2(inew, iold) + 1
        new_keys == [i \in 0..(2 * size - 1) |->
                       IF heap.count # 0 /\ i >= inew /\ i < inew + n
                       THEN keys[iold + (i - inew)] ELSE Inf]
        new_values == [i \in 0..(size - 1) |->
                         IF heap.count # 0 /\ i < n THEN values[i] ELSE 0 - 1]
        new_heap == [heap EXCEPT !.levels = new_levels]
    IN [keys |-> _sift_all(new_keys, new_heap), values |-> new_values, heap |-> new_heap]

\* the heap with its four parts replaced
HeapOf(keys, values, crossrefs, heap) ==
    [keys |-> keys, values |-> values, crossrefs |-> crossrefs, heap |-> heap]

_remove(keys, values, crossrefs, heap, i) ==
    LET lvl_start == Shl(1, heap.levels) - 1
        ilast == lvl_start + heap.count - 1
        i_val == i - lvl_start
        i_val_last == heap.count - 1
        crossrefs1 == [crossrefs EXCEPT ![values[i_val_last]] = i_val]
        crossrefs2 == [crossrefs1 EXCEPT ![values[i_val]] = 0 - 1]
        keys1 == [keys EXCEPT ![i] = keys[ilast]]
        values1 == [values EXCEPT ![i_val] = values[i_val_last]]
        keys2 == [keys1 EXCEPT ![ilast] = Inf]
        heap1 == [heap EXCEPT !.count = heap.count - 1]
    IN IF heap1.levels > heap1.min_levels /\ heap1.count < Shl(1, heap1.levels - 2)
       THEN LET r == _resize_levels(keys2, values1, heap1, 0 - 1)
            IN HeapOf(r.keys, r.values, crossrefs2, r.heap)
       ELSE HeapOf(_sift(_sift(keys2, heap1, i), heap1, ilast), values1, crossrefs2, heap1)

_simple_push(keys, values, crossrefs, heap, key, value) ==
    LET grow == heap.count >= Shl(1, heap.levels)
        r == IF grow THEN _resize_levels(keys, values, heap, 1)
             ELSE [keys |-> keys, values |-> values, heap |-> heap]
        lvl_size == Shl(1, r.heap.levels)
        i == lvl_size - 1 + heap.count
        heap1 == [r.heap EXCEPT !.count = heap.count + 1]
    IN HeapOf(_sift([r.keys EXCEPT ![i] = key], heap1, i),
              [r.values EXCEPT ![heap.count] = value],
              [crossrefs EXCEPT ![value] = heap.count],
              heap1)

\* an operation's outcome besides the heap: the flag of a push with the key and
\* value it was called with, the key and value a pop returns
Ret(op, flag, key, value, raised) ==
    [op |-> op, flag |-> flag, key |-> key, value |-> value, raised |-> raised]

\* the heap the variables hold
TheHeap == HeapOf(heap_keys, heap_values, heap_xrefs, heap_state)

\* the heap and the return value after an operation
Becomes(h, ret) ==
    /\ heap_keys' = h.keys
    /\ heap_values' = h.values
    /\ heap_xrefs' = h.crossrefs
    /\ heap_state' = h.heap
    /\ heap_ret' = ret

HeapInit ==
    \E capacity \in 1..MaxCapacity :
        LET h == init_heap_data(capacity, MaxValue)
        IN /\ heap_keys = h.keys
           /\ heap_values = h.values
           /\ heap_xrefs = h.crossrefs
           /\ heap_state = h.heap
           /\ heap_ret = Ret("init_heap_data", 0, 0, 0, "none")

\* 0 <= value without the upper bound
InDomainNoUpper(value, heap) == 0 <= value

\* 0 <= value <= heap[0].max_value
InDomain(value, heap) == 0 <= value /\ value <= heap.max_value

\* push(keys, values, crossrefs, heap, key, value); an index past the end of
\* crossrefs raises IndexError
Push ==
    \E key \in HeapKeys, value \in HeapValues :
        IF ~InDomain(value, heap_state)
        THEN Becomes(TheHeap, Ret("push", 0 - 1, key, value, "none"))
        ELSE IF value \notin DOMAIN heap_xrefs
        THEN Becomes(TheHeap, Ret("push", 0, key, value, "IndexError"))
        ELSE LET lvl_size == Shl(1, heap_state.levels)
                 ii == heap_xrefs[value]
             IN IF ii # 0 - 1
                THEN LET i == lvl_size - 1 + ii
                     IN Becomes(HeapOf(_sift([heap_keys EXCEPT ![i] = key], heap_state, i),
                                       heap_values, heap_xrefs, heap_state),
                                Ret("push", 0, key, value, "none"))
                ELSE Becomes(_simple_push(heap_keys, heap_values, heap_xrefs,
                                          heap_state, key, value),
                             Ret("push", 1, key, value, "none"))

\* push_if_lower(keys, values, crossrefs, heap, key, value)
PushIfLower ==
    \E key \in HeapKeys, value \in HeapValues :
        IF ~InDomain(value, heap_state)
        THEN Becomes(TheHeap, Ret("push_if_lower", 0 - 1, key, value, "none"))
        ELSE IF value \notin DOMAIN heap_xrefs
        THEN Becomes(TheHeap, Ret("push_if_lower", 0, key, value, "IndexError"))
        ELSE LET icr == heap_xrefs[value]
             IN IF icr # 0 - 1
                THEN LET i == Shl(1, heap_state.levels) - 1 + icr
                     IN IF heap_keys[i] > key
                        THEN Becomes(HeapOf(_sift([heap_keys EXCEPT ![i] = key],
                                                  heap_state, i),
                                            heap_values, heap_xrefs, heap_state),
                                     Ret("push_if_lower", 1, key, value, "none"))
                        ELSE Becomes(TheHeap, Ret("push_if_lower", 0, key, value, "none"))
                ELSE Becomes(_simple_push(heap_keys, heap_values, heap_xrefs,
                                          heap_state, key, value),
                             Ret("push_if_lower", 1, key, value, "none"))

\* the loop of lines 203-207 of pop
RECURSIVE TraceMin(_, _, _, _)
TraceMin(keys, i, lvl, stop) ==
    IF lvl < stop
    THEN TraceMin(keys,
                  IF keys[i] <= keys[i + 1] THEN (i * 2) + 1 ELSE ((i + 1) * 2) + 1,
                  lvl + 1, stop)
    ELSE i

\* pop(keys, values, crossrefs, heap); an index past the end of an array
\* raises IndexError
Pop ==
    LET i0 == TraceMin(heap_keys, 1, 1, heap_state.levels)
    IN IF i0 + 1 \notin DOMAIN heap_keys
       THEN Becomes(TheHeap, Ret("pop", 0, 0, 0, "IndexError"))
       ELSE LET i == IF heap_keys[i0] > heap_keys[i0 + 1] THEN i0 + 1 ELSE i0
                ii == i - (Shl(1, heap_state.levels) - 1)
                popped_key == heap_keys[i]
                popped_value == heap_values[ii]
            IN IF heap_state.count # 0
               THEN Becomes(_remove(heap_keys, heap_values, heap_xrefs, heap_state, i),
                            Ret("pop", 0, popped_key, popped_value, "none"))
               ELSE Becomes(TheHeap, Ret("pop", 0, popped_key, popped_value, "none"))

-----------------------------------------------------------------------------
(* CostDistance.__init__, _compute_costs and the Dijkstra loop of iterate: *)
(* driptorch/firing/strip_contour.py lines 233-343.  A flattened raster is *)
(* a function on 0..rows*cols-1; the heap is the list heapq keeps.         *)

DijkstraRows == 3       \* rows of the elevation raster
DijkstraCols == 2       \* columns of the elevation raster
MaxNoData == 2          \* no-data cells of the elevation raster
MaxQueue == 40          \* longest heap list followed
RasterElevations == {0, 1}      \* finite elevations
NoDataValues == {Inf, NaN}      \* the elevation of a no-data cell

\* a > b of floats: false when either is NaN
FGt(a, b) == a # NaN /\ b # NaN /\ a > b

\* np.sqrt(distance**2 + dz**2), distance in 1/Scale cell, dz in elevation units
MoveLength(distance, dz) ==
    IF dz = NaN THEN NaN
    ELSE IF ~IsFinite(dz) THEN Inf
    ELSE ISqrt(distance * distance + dz * dz * Scale * Scale)

\* the (cost, stop) of one edge, lines 295-299
EdgeCost(edge, elevation, cost) ==
    LET dz == FSub(elevation[edge[1]], elevation[edge[2]])
    IN <<FAdd(cost[edge[1]], MoveLength(edge[3], dz)), edge[2]>>

\* the concatenation of the lists of a list
RECURSIVE Flatten(_)
Flatten(lists) == IF lists = <<>> THEN <<>> ELSE Head(lists) \o Flatten(Tail(lists))

\* _compute_costs(edge_set): the (cost, stop) of every edge, in order
compute_costs(edge_set, elevation, cost) ==
    LET edge_list == Flatten(edge_set)
    IN [n \in 1..Len(edge_list) |-> EdgeCost(edge_list[n], elevation, cost)]

\* a < b of two (cost, loc) tuples: by the first elements unless they are
\* equal, and a NaN equals nothing
PairLess(a, b) == IF a[1] = b[1] /\ a[1] # NaN THEN a[2] < b[2] ELSE FLt(a[1], b[1])

\* heapq._siftdown(heap, startpos, pos) carrying newitem; positions are 0-based
RECURSIVE SiftDown(_, _, _, _)
SiftDown(heap, startpos, pos, newitem) ==
    LET parentpos == (pos - 1) \div 2
    IN IF pos > startpos /\ PairLess(newitem, heap[parentpos + 1])
       THEN SiftDown([heap EXCEPT ![pos + 1] = heap[parentpos + 1]],
                     startpos, parentpos, newitem)
       ELSE [heap EXCEPT ![pos + 1] = newitem]

\* heapq._siftup(heap, pos) carrying newitem
RECURSIVE SiftUp(_, _, _, _)
SiftUp(heap, startpos, pos, newitem) ==
    LET childpos == 2 * pos + 1
        rightpos == childpos + 1
        child == IF rightpos < Len(heap) /\ ~PairLess(heap[childpos + 1], heap[rightpos + 1])
                 THEN rightpos ELSE childpos
    IN IF childpos < Len(heap)
       THEN SiftUp([heap EXCEPT ![pos + 1] = heap[child + 1]], startpos, child, newitem)
       ELSE SiftDown([heap EXCEPT ![pos + 1] = newitem], startpos, pos, newitem)

\* heapq.heapify(x): _siftup from position n//2 - 1 down to 0
RECURSIVE HeapifyFrom(_, _)
HeapifyFrom(x, i) ==
    IF i < 0 THEN x ELSE HeapifyFrom(SiftUp(x, i, i, x[i + 1]), i - 1)

heapify(x) == HeapifyFrom(x, (Len(x) \div 2) - 1)

\* heapq.heappush(heap, item)
heappush(heap, item) == SiftDown(Append(heap, item), 0, Len(heap), item)

\* Body(value), with value computed once
With(value, Body(_)) == CHOOSE r \in {Body(v) : v \in {value}} : TRUE

\* Heap.push(x) with a list: heappush of every item in order
RECURSIVE PushAll(_, _)
PushAll(heap, items) ==
    IF items = <<>> THEN heap
    ELSE With(heappush(heap, Head(items)), LAMBDA pushed : PushAll(pushed, Tail(items)))

\* heapq.heappop(heap): the item returned and the heap left
heappop(heap) ==
    LET lastelt == heap[Len(heap)]
        rest == SubSeq(heap, 1, Len(heap) - 1)
    IN IF rest # <<>>
       THEN [item |-> rest[1], heap |-> SiftUp([rest EXCEPT ![1] = lastelt], 0, 0, lastelt)]
       ELSE [item |-> lastelt, heap |-> rest]

\* generate_source_cost, lines 177-197: the source row is the first or the
\* last row, the cost is 0 on it and +inf elsewhere
SourceLocations(rows, cols, first) ==
    LET r == IF first THEN 0 ELSE rows - 1
    IN [n \in 1..cols |-> r * cols + (n - 1)]

\* CostDistance.__init__ on an elevation raster and a start path
DijkstraInit ==
    \E nodata \in {s \in SUBSET (0..(DijkstraRows * DijkstraCols - 1)) :
                     Cardinality(s) <= MaxNoData},
       fill \in NoDataValues, first \in BOOLEAN :
      \E elev \in [(0..(DijkstraRows * DijkstraCols - 1)) \ nodata -> RasterElevations] :
        LET data == [i \in 0..(DijkstraRows * DijkstraCols - 1) |->
                       IF i \in nodata THEN fill ELSE elev[i]]
            sources == SourceLocations(DijkstraRows, DijkstraCols, first)
            cost == [i \in 0..(DijkstraRows * DijkstraCols - 1) |->
                       IF i \in Range(sources) THEN 0 ELSE Inf]
            source_neighbors == [n \in 1..Len(sources) |->
                                   get_neighbors(sources[n], DijkstraRows, DijkstraCols)]
        IN /\ (nodata = {} => fill = Inf)
           /\ cd_elevation = [rows |-> DijkstraRows, cols |-> DijkstraCols, data |-> data]
           /\ cd_cost = cost
           /\ cd_PQ = heapify(compute_costs(source_neighbors, data, cost))
           /\ cd_popped = <<>>
           /\ cd_pass = 0
           /\ cdpc = "loop"

\* the cost raster and the heap after one pass of the while loop of iterate,
\* lines 335-343
PassFrom(elevation, cost_data, p) ==
    LET cost == p.item[1]
        loc == p.item[2]
        written == [cost_data EXCEPT ![loc] = cost]
    IN IF FGt(cost, cost_data[loc])
       THEN [popped |-> p.item, cost |-> cost_data, heap |-> p.heap]
       ELSE [popped |-> p.item, cost |-> written,
             heap |-> With(compute_costs(
                             <<get_neighbors(loc, elevation.rows, elevation.cols)>>,
                             elevation.data, written),
                           LAMBDA neighbor_costs : PushAll(p.heap, neighbor_costs))]

AfterPop(elevation, cost_data, heap) ==
    With(heappop(heap), LAMBDA p : PassFrom(elevation, cost_data, p))

\* one pass of the while loop
DijkstraStep ==
    /\ cdpc = "loop"
    /\ cd_PQ # <<>>
    /\ \E after \in {AfterPop(cd_elevation, cd_cost, cd_PQ)} :
          /\ Len(after.heap) <= MaxQueue
          /\ cd_popped' = after.popped
          /\ cd_cost' = after.cost
          /\ cd_PQ' = after.heap
    /\ cd_pass' = 1 - cd_pass
    /\ UNCHANGED <<cd_elevation, cdpc>>

\* a pass that leaves the heap longer than MaxQueue: the loop is not followed
\* further
DijkstraOverflow ==
    /\ cdpc = "loop"
    /\ cd_PQ # <<>>
    /\ Len(AfterPop(cd_elevation, cd_cost, cd_PQ).heap) > MaxQueue
    /\ cdpc' = "overflow"
    /\ cd_pass' = 1 - cd_pass
    /\ UNCHANGED <<cd_elevation, cd_cost, cd_PQ, cd_popped>>

\* the while loop ends: the heap is empty
DijkstraDone ==
    /\ cdpc = "loop"
    /\ cd_PQ = <<>>
    /\ cdpc' = "done"
    /\ cd_pass' = 1 - cd_pass
    /\ UNCHANGED <<cd_elevation, cd_cost, cd_PQ, cd_popped>>

-----------------------------------------------------------------------------
(* An igniter of any velocity: Igniter.__init__, add_igniter and the times *)
(* of its path in TemporalPropagator._init_path_time                       *)

MaxLineLength == 3      \* length of the igniter's path (m)

AnyVelocities == {Rat(0 - 2, 1), Rat(0 - 1, 1), RatZero, Rat(1, 1), Rat(2, 1)}
LineLengths == 1..MaxLineLength

\* a + b
RatAdd(a, b) == Rat(a.n * b.d + b.n * a.d, a.d * b.d)

\* Igniter(velocity, interval, interval_units), lines 33-44: the only
\* statement that can fail is interval / velocity of line 42
ConstructIgniter ==
    /\ velpc = "start"
    /\ \E velocity \in AnyVelocities, interval \in IgniterIntervals,
          interval_units \in IntervalUnits :
         IF interval # RatZero /\ interval_units = "seconds" /\ velocity = RatZero
         THEN /\ vel_igniter' = [raised |-> "ZeroDivisionError", velocity |-> velocity]
              /\ velpc' = "raised"
         ELSE /\ vel_igniter' = NewIgniter(velocity, interval, interval_units)
              /\ velpc' = "igniter"
    /\ UNCHANGED <<vel_crew, vel_path>>

\* IgnitionCrew(same_velocity, same_interval).add_igniter(igniter)
AddToCrew ==
    /\ velpc = "igniter"
    /\ \E same_velocity \in BOOLEAN, same_interval \in BOOLEAN :
         LET r == add_igniter(NewCrew(same_velocity, same_interval), vel_igniter)
         IN  /\ vel_crew' = r.crew
             /\ velpc' = IF r.raised THEN "raised" ELSE "crew"
    /\ UNCHANGED <<vel_igniter, vel_path>>

\* _init_path_time on the one path (heat 0, igniter 0, leg 0) of the crew's
\* igniter: start_time = 0 (line 489), end_time = start_time + length / velocity
\* (line 496)
InitOnePathTime ==
    /\ velpc = "crew"
    /\ \E length \in LineLengths :
         LET velocity == vel_crew.igniters[1].velocity
             start == RatZero
         IN  IF velocity = RatZero
             THEN /\ vel_path' = [raised |-> "ZeroDivisionError", length |-> length,
                                  start_time |-> start]
                  /\ velpc' = "raised"
             ELSE /\ vel_path' = [length |-> length, start_time |-> start,
                                  end_time |-> RatAdd(start, RatDiv(Rat(length, 1), velocity))]
                  /\ velpc' = "pattern"
    /\ UNCHANGED <<vel_igniter, vel_crew>>

VelocityInit ==
    /\ vel_igniter = NoCall
    /\ vel_crew = NoCall
    /\ vel_path = NoCall
    /\ velpc = "start"

-----------------------------------------------------------------------------
(* The spacing schedules: the levels loop of CostDistance.iterate          *)
(* (strip_contour.py lines 346-350) and the start positions of             *)
(* Strip._init_paths (strip.py lines 100-116), for every depth >= 0        *)

MaxSpan == 4        \* max(cost_raster), and x_max - x_min of the burn unit
MaxDepth == 2       \* depth and heat_depth

ScheduleDepths == 0..MaxDepth

\* longer than every schedule whose steps add up to a positive amount per heat
ScheduleCap == 2 + MaxIgniters * (MaxSpan + 1)

\* x_min of the burn unit
ScheduleXMin == 0

\* generate_pattern(depth, heat_depth) of StripContour reaches line 346, that
\* of Strip reaches line 100
ScheduleInit ==
    /\ \E loop \in {"levels", "x_range"}, n \in 1..MaxIgniters,
          depth \in ScheduleDepths, heat_depth \in ScheduleDepths, upper \in 1..MaxSpan :
         /\ sched_args = [loop |-> loop, num_igniters |-> n, depth |-> depth,
                          heat_depth |-> heat_depth, upper |-> upper]
         /\ sched_list = IF loop = "levels" THEN <<depth>> ELSE <<>>
         /\ sched_cur = IF loop = "levels" THEN 0 ELSE ScheduleXMin + depth
    /\ schedpc = "loop"

\* one pass of the while loop of strip_contour.py lines 347-350
LevelsLoopStep ==
    /\ schedpc = "loop" /\ sched_args.loop = "levels"
    /\ MoreLevels(sched_list, sched_args.upper)
    /\ IF Len(sched_list) < ScheduleCap
       THEN /\ sched_list' = LevelsPass(sched_list, sched_args.num_igniters,
                                        sched_args.depth, sched_args.heat_depth)
            /\ UNCHANGED schedpc
       ELSE /\ schedpc' = "overflow"
            /\ UNCHANGED sched_list
    /\ UNCHANGED <<sched_args, sched_cur>>

\* np.arange(x_min + depth, x_max, depth) of strip.py line 103
ArangeStep ==
    /\ schedpc = "loop" /\ sched_args.loop = "x_range"
    /\ sched_args.heat_depth = 0
    /\ IF sched_args.depth = 0
       THEN /\ schedpc' = "raised"
            /\ UNCHANGED sched_list
       ELSE /\ sched_list' = StartPositions(ScheduleXMin + sched_args.depth,
                                            ScheduleXMin + sched_args.upper, 0,
                                            sched_args.num_igniters, sched_args.depth, 0)
            /\ schedpc' = "done"
    /\ UNCHANGED <<sched_args, sched_cur>>

\* one pass of the while loop of strip.py lines 110-116
XRangeLoopStep ==
    /\ schedpc = "loop" /\ sched_args.loop = "x_range"
    /\ sched_args.heat_depth # 0
    /\ sched_cur < ScheduleXMin + sched_args.upper
    /\ IF Len(sched_list) < ScheduleCap
       THEN LET i == Len(sched_list)
                x_range == Append(sched_list, sched_cur)
            IN  /\ sched_list' = x_range
                /\ sched_cur' = IF (i + 1) % sched_args.num_igniters = 0
                                THEN x_range[i + 1] + sched_args.heat_depth
                                ELSE x_range[i + 1] + sched_args.depth
                /\ UNCHANGED schedpc
       ELSE /\ schedpc' = "overflow"
            /\ UNCHANGED <<sched_list, sched_cur>>
    /\ UNCHANGED sched_args

\* the test of the while loop fails: the schedule is built
ScheduleDone ==
    /\ schedpc = "loop"
    /\ \/ sched_args.loop = "levels" /\ ~MoreLevels(sched_list, sched_args.upper)
       \/ /\ sched_args.loop = "x_range" /\ sched_args.heat_depth # 0
          /\ ~(sched_cur < ScheduleXMin + sched_args.upper)
    /\ schedpc' = "done"
    /\ UNCHANGED <<sched_args, sched_list, sched_cur>>

\* the variables of the other machines at rest
TPIdle ==
    /\ paths = <<>> /\ crew = <<>> /\ cfg = <<>>
    /\ start_time = <<>> /\ end_time = <<>> /\ times = <<>>
    /\ row = 0 /\ tpc = "idle"

PatIdle == objs = <<>> /\ call = NoCall

GDTIdle ==
    /\ dem = <<>> /\ source = {} /\ res_x = 0 /\ cost_distance = <<>>
    /\ PQ = {} /\ gpc = "idle" /\ result = <<>>

PersIdle == icrew = <<>> /\ pcall = NoCall

FiringIdle == tech = <<>> /\ gargs = <<>> /\ runs = <<>>

IterIdle ==
    /\ iter_args = <<>> /\ levels = <<>> /\ contours = <<>>
    /\ path_dict = <<>> /\ ipc = "idle"

NeighborsIdle == raster = <<>> /\ ncall = NoCall

GenerateIdle == gcall = NoCall

DashesIdle ==
    /\ dash_igniter = NoCall
    /\ dash_line = NoCall
    /\ dash_row = NoCall
    /\ dpc = "idle"

HeapIdle ==
    /\ heap_keys = <<>>
    /\ heap_values = <<>>
    /\ heap_xrefs = <<>>
    /\ heap_state = NoCall
    /\ heap_ret = NoCall

DijkstraIdle ==
    /\ cd_elevation = NoCall
    /\ cd_cost = <<>>
    /\ cd_PQ = <<>>
    /\ cd_popped = <<>>
    /\ cd_pass = 0
    /\ cdpc = "idle"

VelocityIdle ==
    /\ vel_igniter = NoCall
    /\ vel_crew = NoCall
    /\ vel_path = NoCall
    /\ velpc = "idle"

ScheduleIdle ==
    /\ sched_args = NoCall
    /\ sched_list = <<>>
    /\ sched_cur = 0
    /\ schedpc = "idle"

notGDT == <<tpVars, patVars, persVars, firingVars, iterVars, neighborsVars, genVars, dashVars, heapVars, dijkstraVars, velVars, schedVars>>

InitGDT == GDTInit /\ TPIdle /\ PatIdle /\ PersIdle /\ FiringIdle /\ IterIdle /\ NeighborsIdle /\ GenerateIdle /\ DashesIdle /\ HeapIdle /\ DijkstraIdle /\ VelocityIdle /\ ScheduleIdle

NextGDT ==
    \/ SolveStep /\ UNCHANGED notGDT
    \/ SolveReturn /\ UNCHANGED notGDT

SpecGDT == InitGDT /\ [][NextGDT]_vars

notTP == <<gdtVars, patVars, persVars, firingVars, iterVars, neighborsVars, genVars, dashVars, heapVars, dijkstraVars, velVars, schedVars>>

InitTP == TPInit /\ GDTIdle /\ PatIdle /\ PersIdle /\ FiringIdle /\ IterIdle /\ NeighborsIdle /\ GenerateIdle /\ DashesIdle /\ HeapIdle /\ DijkstraIdle /\ VelocityIdle /\ ScheduleIdle

NextTP ==
    \/ InitPathTimeRow /\ UNCHANGED notTP
    \/ ShiftToZero /\ UNCHANGED notTP
    \/ SyncEndTime /\ UNCHANGED notTP
    \/ ComputeArrivalTimes /\ UNCHANGED notTP

SpecTP == InitTP /\ [][NextTP]_vars

notPattern == <<gdtVars, tpVars, persVars, firingVars, iterVars, neighborsVars, genVars, dashVars, heapVars, dijkstraVars, velVars, schedVars>>

InitPattern == PatInit /\ GDTIdle /\ TPIdle /\ PersIdle /\ FiringIdle /\ IterIdle /\ NeighborsIdle /\ GenerateIdle /\ DashesIdle /\ HeapIdle /\ DijkstraIdle /\ VelocityIdle /\ ScheduleIdle

NextPattern ==
    \/ Construct /\ UNCHANGED notPattern
    \/ FromDict /\ UNCHANGED notPattern
    \/ Merge /\ UNCHANGED notPattern

SpecPattern == InitPattern /\ [][NextPattern]_vars

notPersonnel == <<gdtVars, tpVars, patVars, firingVars, iterVars, neighborsVars, genVars, dashVars, heapVars, dijkstraVars, velVars, schedVars>>

InitPersonnel == PersInit /\ GDTIdle /\ TPIdle /\ PatIdle /\ FiringIdle /\ IterIdle /\ NeighborsIdle /\ GenerateIdle /\ DashesIdle /\ HeapIdle /\ DijkstraIdle /\ VelocityIdle /\ ScheduleIdle

NextPersonnel ==
    \/ AddIgniter /\ UNCHANGED notPersonnel
    \/ IgniterJson /\ UNCHANGED notPersonnel
    \/ CrewJson /\ UNCHANGED notPersonnel

SpecPersonnel == InitPersonnel /\ [][NextPersonnel]_vars

notFiring == <<gdtVars, tpVars, patVars, persVars, iterVars, neighborsVars, genVars, dashVars, heapVars, dijkstraVars, velVars, schedVars>>

InitFiring == FiringInit /\ GDTIdle /\ TPIdle /\ PatIdle /\ PersIdle /\ IterIdle /\ NeighborsIdle /\ GenerateIdle /\ DashesIdle /\ HeapIdle /\ DijkstraIdle /\ VelocityIdle /\ ScheduleIdle

NextFiring ==
    \/ GeneratePattern /\ UNCHANGED notFiring

SpecFiring == InitFiring /\ [][NextFiring]_vars

notIterate == <<gdtVars, tpVars, patVars, persVars, firingVars, neighborsVars, genVars, dashVars, heapVars, dijkstraVars, velVars, schedVars>>

InitIterate == IterInit /\ GDTIdle /\ TPIdle /\ PatIdle /\ PersIdle /\ FiringIdle /\ NeighborsIdle /\ GenerateIdle /\ DashesIdle /\ HeapIdle /\ DijkstraIdle /\ VelocityIdle /\ ScheduleIdle

NextIterate ==
    \/ LevelsStep /\ UNCHANGED notIterate
    \/ ExtractPaths /\ UNCHANGED notIterate

SpecIterate == InitIterate /\ [][NextIterate]_vars

notNeighbors == <<gdtVars, tpVars, patVars, persVars, firingVars, iterVars, genVars, dashVars, heapVars, dijkstraVars, velVars, schedVars>>

InitNeighbors == NeighborsInit /\ GDTIdle /\ TPIdle /\ PatIdle /\ PersIdle /\ FiringIdle /\ IterIdle /\ GenerateIdle /\ DashesIdle /\ HeapIdle /\ DijkstraIdle /\ VelocityIdle /\ ScheduleIdle

NextNeighbors ==
    \/ GetNeighbors /\ UNCHANGED notNeighbors

SpecNeighbors == InitNeighbors /\ [][NextNeighbors]_vars

notGenerate == <<gdtVars, patVars, persVars, firingVars, iterVars, neighborsVars, dashVars, heapVars, dijkstraVars, velVars, schedVars>>

InitGenerate == GenerateInit /\ GDTIdle /\ PatIdle /\ PersIdle /\ FiringIdle /\ IterIdle /\ NeighborsIdle /\ DashesIdle /\ HeapIdle /\ DijkstraIdle /\ VelocityIdle /\ ScheduleIdle

NextGenerate ==
    \/ GenInitPathTimeRow /\ UNCHANGED notGenerate
    \/ GenShiftToZero /\ UNCHANGED notGenerate
    \/ GenSyncEndTime /\ UNCHANGED notGenerate
    \/ GenComputeArrivalTimes /\ UNCHANGED notGenerate

SpecGenerate == InitGenerate /\ [][NextGenerate]_vars

notDashes == <<gdtVars, tpVars, patVars, persVars, firingVars, iterVars, neighborsVars, genVars, heapVars, dijkstraVars, velVars, schedVars>>

InitDashes == DashesInit /\ GDTIdle /\ TPIdle /\ PatIdle /\ PersIdle /\ FiringIdle /\ IterIdle /\ NeighborsIdle /\ GenerateIdle /\ HeapIdle /\ DijkstraIdle /\ VelocityIdle /\ ScheduleIdle

NextDashes ==
    \/ Dashes /\ UNCHANGED notDashes

SpecDashes == InitDashes /\ [][NextDashes]_vars

notHeap == <<gdtVars, tpVars, patVars, persVars, firingVars, iterVars, neighborsVars, genVars, dashVars, dijkstraVars, velVars, schedVars>>

InitHeap == HeapInit /\ GDTIdle /\ TPIdle /\ PatIdle /\ PersIdle /\ FiringIdle /\ IterIdle /\ NeighborsIdle /\ GenerateIdle /\ DashesIdle /\ DijkstraIdle /\ VelocityIdle /\ ScheduleIdle

NextHeap ==
    \/ Push /\ UNCHANGED notHeap
    \/ PushIfLower /\ UNCHANGED notHeap
    \/ Pop /\ UNCHANGED notHeap

SpecHeap == InitHeap /\ [][NextHeap]_vars

notDijkstra == <<gdtVars, tpVars, patVars, persVars, firingVars, iterVars, neighborsVars, genVars, dashVars, heapVars, velVars, schedVars>>

InitDijkstra == DijkstraInit /\ GDTIdle /\ TPIdle /\ PatIdle /\ PersIdle /\ FiringIdle /\ IterIdle /\ NeighborsIdle /\ GenerateIdle /\ DashesIdle /\ HeapIdle /\ VelocityIdle /\ ScheduleIdle

NextDijkstra ==
    \/ DijkstraStep /\ UNCHANGED notDijkstra
    \/ DijkstraOverflow /\ UNCHANGED notDijkstra
    \/ DijkstraDone /\ UNCHANGED notDijkstra

SpecDijkstra == InitDijkstra /\ [][NextDijkstra]_vars

notVelocity == <<gdtVars, tpVars, patVars, persVars, firingVars, iterVars, neighborsVars, genVars, dashVars, heapVars, dijkstraVars, schedVars>>

InitVelocity == VelocityInit /\ GDTIdle /\ TPIdle /\ PatIdle /\ PersIdle /\ FiringIdle /\ IterIdle /\ NeighborsIdle /\ GenerateIdle /\ DashesIdle /\ HeapIdle /\ DijkstraIdle /\ ScheduleIdle

NextVelocity ==
    \/ ConstructIgniter /\ UNCHANGED notVelocity
    \/ AddToCrew /\ UNCHANGED notVelocity
    \/ InitOnePathTime /\ UNCHANGED notVelocity

SpecVelocity == InitVelocity /\ [][NextVelocity]_vars

notSchedule == <<gdtVars, tpVars, patVars, persVars, firingVars, iterVars, neighborsVars, genVars, dashVars, heapVars, dijkstraVars, velVars>>

InitSchedule == ScheduleInit /\ GDTIdle /\ TPIdle /\ PatIdle /\ PersIdle /\ FiringIdle /\ IterIdle /\ NeighborsIdle /\ GenerateIdle /\ DashesIdle /\ HeapIdle /\ DijkstraIdle /\ VelocityIdle

NextSchedule ==
    \/ LevelsLoopStep /\ UNCHANGED notSchedule
    \/ ArangeStep /\ UNCHANGED notSchedule
    \/ XRangeLoopStep /\ UNCHANGED notSchedule
    \/ ScheduleDone /\ UNCHANGED notSchedule

SpecSchedule == InitSchedule /\ [][NextSchedule]_vars

-----------------------------------------------------------------------------
(* Properties of the geodesic distance transform *)

\* the cells of the padded grid that hold the input DEM
Interior == {<<c[1]+PadWidth, c[2]+PadWidth>> : c \in DemCells}

\* the weight sqrt(dz^2 + K[ii,jj]) of the edge from cell a to its neighbor b
EdgeWeight(a, b) ==
    EdgeLength(FSub(At(dem, a[1], a[2]), At(dem, b[1], b[2])),
               get_local_distance_kernel(b[1]-a[1], b[2]-a[2], res_x))

Adjacent(a, b) == a # b /\ Abs(a[1]-b[1]) <= 1 /\ Abs(a[2]-b[2]) <= 1

\* the candidate cost of cell c after one more edge, given the costs d
BestVia(d, c) ==
    LET via == {FAdd(d[a], EdgeWeight(a, c)) : a \in {x \in Interior : Adjacent(x, c)}}
        better == {v \in via : FLt(v, d[c])}
    IN  IF better = {} THEN d[c] ELSE SetMin(better)

\* one Bellman-Ford round over the cells S, built entry by entry
RECURSIVE Round(_, _)
Round(d, S) ==
    IF S = {} THEN <<>>
    ELSE LET c == CHOOSE x \in S : TRUE
         IN  (c :> BestVia(d, c)) @@ Round(d, S \ {c})

RECURSIVE SourceCost(_)
SourceCost(S) ==
    IF S = {} THEN <<>>
    ELSE LET c == CHOOSE x \in S : TRUE
         IN  (c :> (IF c \in source THEN 0 ELSE Inf)) @@ SourceCost(S \ {c})

\* the least total weight of an 8-connected path of at most n edges from a
\* source cell
RECURSIVE PathCost(_)
PathCost(n) ==
    IF n = 0 THEN SourceCost(Interior) ELSE Round(PathCost(n-1), Interior)

\* a simple path has fewer edges than the DEM has cells
MinPathCost == PathCost(Rows * Cols - 1)

LoopEnded == gpc = "solve" /\ PQ = {}

\* C1: when the loop of solve() ends, every cell reachable from a source cell
\* holds the least total edge weight over the 8-connected paths from a source
DijkstraOptimal ==
    LoopEnded =>
        LET best == MinPathCost
        IN  \A c \in Interior :
                best[c] < Inf => At(cost_distance, c[1], c[2]) = best[c]

\* C1 witness: the loop has ended on a DEM of finite elevations with a cell
\* that no single edge joins to a source, reached at its least path cost
DijkstraOptimalWitness ==
    /\ LoopEnded
    /\ \A c \in Interior : IsFinite(At(dem, c[1], c[2]))
    /\ \E c \in Interior :
        /\ c \notin source
        /\ \A a \in source : ~Adjacent(a, c)
        /\ At(cost_distance, c[1], c[2]) = MinPathCost[c]
        /\ At(cost_distance, c[1], c[2]) < Inf

\* C5: every cell of the returned grid that no path reaches holds +infinity
UnreachableIsInf ==
    gpc = "done" =>
        LET best == MinPathCost
        IN  \A c \in Interior :
                best[c] = Inf => At(result, c[1]-PadWidth, c[2]-PadWidth) = Inf

\* C6: a source cell has cost 0 throughout the relaxation and in the returned
\* grid, and when the loop ends every other reachable cell has a cost above 0
SourceCondition ==
    /\ gpc = "solve" => \A c \in source : At(cost_distance, c[1], c[2]) = 0
    /\ gpc = "done" =>
         \A c \in source : At(result, c[1]-PadWidth, c[2]-PadWidth) = 0
    /\ LoopEnded =>
         LET best == MinPathCost
         IN  \A c \in Interior \ source :
                best[c] < Inf => At(cost_distance, c[1], c[2]) > 0

\* C6 witness: the loop has ended and a cell off the source mask was reached
SourceConditionWitness ==
    /\ LoopEnded
    /\ \E c \in Interior \ source :
         At(cost_distance, c[1], c[2]) > 0 /\ At(cost_distance, c[1], c[2]) < Inf

-----------------------------------------------------------------------------
(* Properties of the temporal propagator                                   *)

\* _init_path_time has returned and forward() is at line 392
AfterInitPathTime == tpc = "sync_end_time"

\* the loop of _init_path_time is over and lines 505-511 have not run
BeforeShift == tpc = "init_path_time" /\ row > Len(paths)

\* forward() has computed the start and end times (line 396 reached)
TimesComputed == tpc \in {"arrival", "done"}

\* C2: after _init_path_time no path of a later heat starts before a path of
\* an earlier heat.
HeatOrder ==
    AfterInitPathTime =>
        \A r1 \in Rows_, r2 \in Rows_ :
            paths[r1].heat < paths[r2].heat => start_time[r2] >= start_time[r1]

\* C3: once forward() has computed the start and end times, the earliest
\* start time of the pattern is 0.
ShiftedToZero ==
    TimesComputed => SetMin(Range(start_time)) = 0

\* C4: with sync_end_time set, _sync_end_time gives every path of a heat the
\* latest end time the heat had before, and moves the start of a path later
\* by as much as its end.
SyncEndTimeCorrect ==
    [][ tpc = "sync_end_time" /\ cfg.sync_end_time =>
          \A r \in Rows_ :
             LET latest == SetMax({end_time[q] :
                              q \in {p \in Rows_ : paths[p].heat = paths[r].heat}})
             IN  /\ end_time'[r] = latest
                 /\ start_time'[r] - start_time[r] = latest - end_time[r]
                 /\ (end_time[r] < latest => start_time'[r] > start_time[r]) ]_vars

\* two igniters of one heat on paths of unequal duration, synchronised: they
\* end together and the shorter path starts later
SyncEndTimeWitness ==
    /\ tpc = "arrival" /\ cfg.sync_end_time
    /\ \E r1 \in Rows_, r2 \in Rows_ :
         /\ paths[r1].heat = paths[r2].heat
         /\ paths[r1].igniter # paths[r2].igniter
         /\ end_time[r1] = end_time[r2]
         /\ Div(Length(paths[r1].geometry), Igniter(paths[r1].igniter).velocity)
              < Div(Length(paths[r2].geometry), Igniter(paths[r2].igniter).velocity)
         /\ start_time[r1] > start_time[r2]

\* C7: with no heat delay, before the final shift, the first leg of the first
\* igniter of a heat i > 0 starts at the latest end of heat i-1, plus the
\* time to walk its own length when return_trip is set.
NewHeatStart ==
    BeforeShift /\ cfg.time_offset_heat = 0 =>
        \A r \in Rows_ :
            paths[r].leg = 0 /\ paths[r].igniter = 0 /\ paths[r].heat > 0 =>
                start_time[r] =
                    SetMax({end_time[q] :
                              q \in {p \in Rows_ : paths[p].heat = paths[r].heat - 1}})
                    + (IF cfg.return_trip
                       THEN (Length(paths[r].geometry) * TimeScale) \div crew[1].velocity
                       ELSE 0)

\* a second heat after a heat of two igniters that end at different times,
\* with the return trip
NewHeatStartWitness ==
    /\ BeforeShift /\ cfg.time_offset_heat = 0 /\ cfg.return_trip
    /\ \E r \in Rows_, q1 \in Rows_, q2 \in Rows_ :
         /\ paths[r].leg = 0 /\ paths[r].igniter = 0 /\ paths[r].heat = 1
         /\ paths[q1].heat = 0 /\ paths[q2].heat = 0
         /\ end_time[q1] < end_time[q2]
         /\ start_time[r] > end_time[q2]

\* the times of row r start with its start time, one for each vertex
OnePerVertex(r) ==
    /\ Len(times[r]) = Len(paths[r].geometry)
    /\ times[r][1] = start_time[r]

\* C8 as stated: the arrival times of _lines are strictly increasing along
\* the vertices, start with the start time and are one for each vertex.
LinesStrictlyIncreasing ==
    tpc = "done" =>
        \A r \in Rows_ :
            /\ OnePerVertex(r)
            /\ \A n \in 1..Len(times[r])-1 : times[r][n] < times[r][n+1]

\* C8, amended: the arrival times of _lines never decrease along the
\* vertices, increase over every segment whose two vertices differ, start
\* with the start time and are one for each vertex.
LinesNonDecreasing ==
    tpc = "done" =>
        \A r \in Rows_ :
            /\ OnePerVertex(r)
            /\ \A n \in 1..Len(times[r])-1 :
                 /\ times[r][n] <= times[r][n+1]
                 /\ (paths[r].geometry[n] # paths[r].geometry[n+1]
                       => times[r][n] < times[r][n+1])

\* a path with a repeated vertex: the time stands still over it and
\* increases over the other segments
LinesNonDecreasingWitness ==
    /\ tpc = "done"
    /\ \E r \in Rows_ : \E n \in 1..Len(times[r])-1, m \in 1..Len(times[r])-1 :
         /\ paths[r].geometry[n] = paths[r].geometry[n+1]
         /\ times[r][n] = times[r][n+1]
         /\ times[r][m] < times[r][m+1]
         /\ times[r][1] = start_time[r]

-----------------------------------------------------------------------------
(* Properties of Pattern                                                   *)

\* C9: the elapsed_time of every Pattern object, built by the constructor,
\* by from_dict or by merge, is the latest of its times minus the earliest.
ElapsedTimeIsSpan ==
    \A id \in 1..Len(objs) :
        objs[id].elapsed_time = AkMax(objs[id].times) - AkMin(objs[id].times)

\* C10: after merge with inplace the receiver has the attributes of the
\* merged pattern; without inplace the receiver is as it was before.
MergeInplaceOverwrites ==
    call.op = "merge" /\ ~call.raised =>
        IF call.inplace
        THEN objs[call.receiver] = objs[call.result]
        ELSE objs[call.receiver] = call.before

-----------------------------------------------------------------------------
(* Properties of the personnel                                             *)

\* C11: an igniter read back from its JSON has the velocity, interval and
\* interval_units it had; a crew read back from its JSON has its flags, as
\* many igniters, and igniters with the same attributes.
JsonRoundTrip ==
    /\ pcall.op = "igniter_json" => pcall.result = pcall.igniter
    /\ pcall.op = "crew_json" =>
         /\ ~pcall.raised
         /\ pcall.result.same_velocity = icrew.same_velocity
         /\ pcall.result.same_interval = icrew.same_interval
         /\ Len(pcall.result.igniters) = Len(icrew.igniters)
         /\ \A n \in 1..Len(icrew.igniters) :
              pcall.result.igniters[n] = icrew.igniters[n]

\* C12: the igniters of a crew built with same_velocity and same_interval
\* all have one velocity and one interval, and a rejected add_igniter leaves
\* the list of igniters as it was.
CrewUniform ==
    /\ icrew.same_velocity /\ icrew.same_interval =>
         \A m \in 1..Len(icrew.igniters), n \in 1..Len(icrew.igniters) :
             /\ icrew.igniters[m].velocity = icrew.igniters[n].velocity
             /\ icrew.igniters[m].interval = icrew.igniters[n].interval
    /\ pcall.op = "add_igniter" /\ pcall.raised =>
         icrew.igniters = pcall.before.igniters

-----------------------------------------------------------------------------
(* Properties of the techniques                                            *)

\* C13: two generate_pattern calls with the same arguments on one technique
\* object give the same heat, igniter, leg and geometry of every path (and so
\* the same times, which the propagator computes from them alone).
Repeatable ==
    \A m \in 1..Len(runs), n \in 1..Len(runs) : runs[m] = runs[n]

-----------------------------------------------------------------------------
(* Properties of strip-contour                                             *)

\* the parts in which the contour of level index m crosses the burn unit
PartsOf(m) ==
    IF contours[m + 1] = "one" THEN 1 ELSE IF contours[m + 1] = "two" THEN 2 ELSE 0

LevelSchedule ==
    /\ ipc # "idle" =>
         /\ levels[1] = iter_args.igniter_depth
         /\ \A m \in 1..Len(levels)-1 :
              levels[m + 1] - levels[m] =
                  IF m % iter_args.num_igniters = 0 THEN iter_args.heat_depth
                  ELSE iter_args.igniter_depth
    /\ ipc \in {"done", "raised"} => levels[Len(levels)] >= iter_args.max_cost

\* two igniters, unequal depths, levels of more than one heat
LevelScheduleWitness ==
    /\ ipc = "done" /\ iter_args.num_igniters = 2
    /\ iter_args.igniter_depth # iter_args.heat_depth
    /\ Len(levels) >= 5
    /\ levels[Len(levels) - 2] < iter_args.max_cost


\* C16: the polylines of one heat run in one direction and those of two
\* consecutive heats in opposite directions.
DirectionsAlternate ==
    ipc = "done" =>
        \A r1 \in Range(path_dict), r2 \in Range(path_dict) :
            /\ r1.heat = r2.heat => Reversed(r1.geometry) = Reversed(r2.geometry)
            /\ r2.heat = r1.heat + 1 => Reversed(r1.geometry) # Reversed(r2.geometry)

-----------------------------------------------------------------------------
(* Properties of get_neighbors                                             *)

\* the cells next to (r, c) inside a rows x cols grid, with the step to them
AdjacentInside(r, c, rows, cols) ==
    {<<(r + dr) * cols + (c + dc), IF dr # 0 /\ dc # 0 THEN Sqrt2 ELSE Scale>> :
        dr \in {x \in {-1, 0, 1} : r + x \in 0..rows-1},
        dc \in {x \in {-1, 0, 1} : c + x \in 0..cols-1}}
    \ {<<r * cols + c, Scale>>}

\* C15: get_neighbors returns exactly the adjacent cells inside the grid,
\* each once, with the step 1 or sqrt(2) to it.
NeighborRule ==
    ncall.op = "get_neighbors" =>
        LET r == ncall.index \div raster.cols
            c == ncall.index % raster.cols
            got == {<<e[2], e[3]>> : e \in Range(ncall.result)}
        IN  /\ got = AdjacentInside(r, c, raster.rows, raster.cols)
            /\ Len(ncall.result) = Cardinality(got)
            /\ \A e \in Range(ncall.result) : e[1] = ncall.index

-----------------------------------------------------------------------------
(* Properties of generate_pattern                                          *)

\* C17: in the pattern of generate_pattern with heat_delay = D, the first
\* igniter of every heat but the first starts D seconds (and its return
\* trip, for Flank) after the latest end of the heat before, that is D
\* seconds later than with heat_delay = 0.
HeatDelayApplied ==
    gcall.op = "generate_pattern" /\ tpc = "done" =>
        \A r \in Rows_ :
            paths[r].leg = 0 /\ paths[r].igniter = 0 /\ paths[r].heat > 0 =>
                start_time[r]
                  - SetMax({end_time[q] :
                              q \in {p \in Rows_ : paths[p].heat = paths[r].heat - 1}})
                  = gcall.heat_delay * TimeScale
                    + (IF gcall.class = "Flank"
                       THEN (Length(paths[r].geometry) * TimeScale) \div crew[1].velocity
                       ELSE 0)

-----------------------------------------------------------------------------
(* Properties of _dashes                                                   *)

\* the gap of an igniter: the dash when gap_length is unset
GapOf(igniter) ==
    IF igniter.gap_length = None THEN igniter.dash_length ELSE igniter.gap_length

\* the dashes [n(a+g), min(n(a+g)+a, L)] with n(a+g) < L, as distances along the path
ExpectedDashes(length, a, g) ==
    LET count == (length + (a + g) - 1) \div (a + g)
    IN [n \in 1..count |->
          <<(n - 1) * (a + g),
            IF (n - 1) * (a + g) + a < length THEN (n - 1) * (a + g) + a ELSE length>>]

\* C18: on a straight path of length L walked at velocity v from start_time
\* s, _dashes emits exactly the segments [n(a+g), min(n(a+g)+a, L)] for
\* every n >= 0 with n(a+g) < L, each timed [s + begin/v, s + end/v].
DashDecomposition ==
    dpc = "done" =>
        LET expected == ExpectedDashes(Length(dash_line.geometry),
                                       dash_igniter.dash_length, GapOf(dash_igniter))
            v == dash_igniter.velocity
            x == dash_line.geometry[1]
        IN /\ Len(dash_row.geometry) = Len(expected)
           /\ Len(dash_row.times) = Len(expected)
           /\ \A n \in 1..Len(expected) :
                /\ Abs(dash_row.geometry[n][1] - x) = expected[n][1]
                /\ Abs(dash_row.geometry[n][2] - x) = expected[n][2]
                /\ dash_row.times[n][1] = dash_line.start_time + Div(expected[n][1], v)
                /\ dash_row.times[n][2] = dash_line.start_time + Div(expected[n][2], v)

-----------------------------------------------------------------------------
(* Properties of the indexed heap                                          *)

\* the (key, value) entries of a heap
Entries(keys, values, heap) ==
    {<<keys[Shl(1, heap.levels) - 1 + p], values[p]>> : p \in 0..(heap.count - 1)}

\* C20: pop on a non-empty heap returns an entry whose key is less than or
\* equal to the key of every other entry, removes exactly that entry and
\* leaves every other entry in the heap.
ExtractMin ==
    [][heap_ret'.op = "pop" /\ heap_state.count > 0 =>
         LET before == Entries(heap_keys, heap_values, heap_state)
             after == Entries(heap_keys', heap_values', heap_state')
             popped == <<heap_ret'.key, heap_ret'.value>>
         IN /\ heap_ret'.raised = "none"
            /\ popped \in before
            /\ \A e \in before : popped[1] <= e[1]
            /\ after = before \ {popped}
            /\ heap_state'.count = heap_state.count - 1]_vars


\* a step of push or push_if_lower
PushStep == heap_ret'.op \in {"push", "push_if_lower"}

\* C21: a push for a value already present keeps one entry for it, with the
\* minimum of the old key and the pushed key; a push for a value not present
\* inserts a new entry.
PushKeepsMinimum ==
    [][PushStep /\ InDomain(heap_ret'.value, heap_state) =>
         LET before == Entries(heap_keys, heap_values, heap_state)
             after == Entries(heap_keys', heap_values', heap_state')
             key == heap_ret'.key
             value == heap_ret'.value
             old == {e \in before : e[2] = value}
         IN /\ Cardinality({e \in after : e[2] = value}) = 1
            /\ IF old = {}
               THEN after = before \cup {<<key, value>>}
               ELSE \E e \in old :
                      after = (before \ {e}) \cup {<<Min2(e[1], key), value>>}]_vars

\* C24: push and push_if_lower called with a value below 0 or above
\* max_value return the flag -1 and leave keys, values, crossrefs, count and
\* levels as they were.
OutOfDomainRejected ==
    [][PushStep /\ (heap_ret'.value < 0 \/ heap_ret'.value > heap_state.max_value) =>
         /\ heap_ret'.flag = 0 - 1
         /\ heap_ret'.raised = "none"
         /\ UNCHANGED <<heap_keys, heap_values, heap_xrefs, heap_state>>]_vars

OutOfDomainRejectedWitness ==
    /\ heap_ret.op \in {"push", "push_if_lower"}
    /\ heap_ret.value > heap_state.max_value
    /\ heap_ret.flag = 0 - 1
    /\ heap_state.count > 1


\* crossrefs[v] = p >= 0 exactly when p < count and values[p] = v, crossrefs[v]
\* = -1 exactly when v is not in the heap, and no value is at two positions
CrossrefsConsistent ==
    LET positions == 0..(heap_state.count - 1)
    IN /\ \A v \in DOMAIN heap_xrefs :
            /\ heap_xrefs[v] >= 0 - 1
            /\ heap_xrefs[v] >= 0 =>
                   heap_xrefs[v] \in positions /\ heap_values[heap_xrefs[v]] = v
            /\ heap_xrefs[v] = 0 - 1 <=> \A p \in positions : heap_values[p] # v
       /\ \A p \in positions : heap_values[p] \in DOMAIN heap_xrefs
       /\ \A p, q \in positions : p # q => heap_values[p] # heap_values[q]

\* every key from index first up to the last level is the minimum of its children
MinimaFrom(first) ==
    \A i \in first..(Shl(1, heap_state.levels) - 2) :
        heap_keys[i] = Min2(heap_keys[2 * i + 1], heap_keys[2 * i + 2])

-----------------------------------------------------------------------------
(* Properties of the strip-contour Dijkstra loop                           *)

\* C22: a popped candidate whose cost is NaN or +inf is not written to the
\* cost raster and is not expanded into new entries, and the cost raster
\* never holds a NaN.
NonFiniteNotRelaxed ==
    [][cdpc = "loop" /\ cdpc' = "loop" =>
         /\ ~IsFinite(cd_popped'[1]) =>
                cd_cost' = cd_cost /\ Len(cd_PQ') = Len(cd_PQ) - 1
         /\ \A i \in DOMAIN cd_cost' : cd_cost'[i] # NaN]_vars

\* a step of iterate while its loop is running: the next pass, the exit of
\* the loop, or the queue outgrowing MaxQueue
Running == cdpc = "loop" /\ cd_pass' = 1 - cd_pass

\* the loop under the scheduling of a sequential program: while the loop is
\* running the interpreter takes its next step. Every state with cdpc = "loop"
\* enables exactly one of DijkstraStep, DijkstraOverflow and DijkstraDone, and
\* each of them is a Running step, so this is weak fairness of NextDijkstra.
FairDijkstra == SpecDijkstra /\ WF_cd_pass(Running)

\* C28: the while loop of iterate eventually empties the priority queue.
DijkstraTerminates == <>(cdpc = "done")


-----------------------------------------------------------------------------
(* Non-positive velocities                                                 *)

\* C23: an igniter whose velocity is 0 or negative is rejected when it is
\* constructed: no Igniter, crew member or path time with a velocity <= 0
\* exists, and the rejection happens in the constructor.
NonPositiveVelocityRejected ==
    /\ velpc \in {"igniter", "crew", "pattern"} => vel_igniter.velocity.n > 0
    /\ velpc = "raised" => vel_crew = NoCall /\ vel_path = NoCall


-----------------------------------------------------------------------------
(* The cost grid during the relaxation of GeodesicDistanceTransform        *)

\* the entry the next pass of solve pops is above the cost of its cell
StaleHead ==
    /\ gpc = "solve"
    /\ PQ # {}
    /\ FLt(At(cost_distance, HeapMin(PQ)[2], HeapMin(PQ)[3]), HeapMin(PQ)[1])

\* every queued key is at least the cost of its cell
QueueKeysAboveCost ==
    \A e \in PQ : FLe(At(cost_distance, e[2], e[3]), e[1])

\* a pass of the loop of solve: no cost rises, and a stale entry only leaves
\* the queue
RelaxationStep ==
    gpc = "solve" /\ gpc' = "solve" =>
        /\ \A i \in 1..NRows(cost_distance), j \in 1..NCols(cost_distance) :
               \/ cost_distance'[i][j] = cost_distance[i][j]
               \/ FLt(cost_distance'[i][j], cost_distance[i][j])
        /\ StaleHead => cost_distance' = cost_distance /\ PQ' = PQ \ {HeapMin(PQ)}

\* C25: during the relaxation a cell's cost is only ever written with a
\* strictly smaller value, every queued key is at least the current cost of
\* its cell, and popping an entry whose key is above that cost changes nothing
\* but the queue.
CostMonotone == [](gpc = "solve" => QueueKeysAboveCost) /\ [][RelaxationStep]_vars

\* a stale entry is next to be popped, after some cell was relaxed twice
CostMonotoneWitness == StaleHead /\ Cardinality(PQ) > 1


-----------------------------------------------------------------------------
(* The paths of one igniter                                                *)

\* the rows r1 and r2 are walked one after the other
Disjoint(r1, r2) ==
    end_time[r1] <= start_time[r2] \/ end_time[r2] <= start_time[r1]

\* C26: in the result of forward() the time intervals of two paths of the same
\* igniter overlap in at most an endpoint.
OnePathAtATime ==
    TimesComputed =>
        \A r1 \in Rows_, r2 \in Rows_ :
            r1 # r2 /\ paths[r1].igniter = paths[r2].igniter => Disjoint(r1, r2)


-----------------------------------------------------------------------------
(* forward() as a function of the heat delay                               *)

\* the columns start_time and end_time after the first n passes of the loop of
\* _init_path_time, lines 411-503, run with the heat delay time_offset_heat
RECURSIVE InitPathTimeUpTo(_, _)
InitPathTimeUpTo(time_offset_heat, n) ==
    IF n = 0
    THEN [st |-> [r \in Rows_ |-> 0], et |-> [r \in Rows_ |-> 0]]
    ELSE With(InitPathTimeUpTo(time_offset_heat, n - 1),
              LAMBDA before :
                LET s == BranchStart(before.st, before.et, n)
                         + (IF paths[n].heat > 0 THEN time_offset_heat * TimeScale ELSE 0)
                    e == s + Div(Length(paths[n].geometry),
                                 Igniter(paths[n].igniter).velocity)
                IN  [st |-> [before.st EXCEPT ![n] = s],
                     et |-> [before.et EXCEPT ![n] = e]])

\* lines 505-511 and _sync_end_time on the columns t
ShiftAndSync(t) ==
    LET min_start_time == ShiftAmount(t.st)
        st == [r \in Rows_ |-> t.st[r] - min_start_time]
        et == [r \in Rows_ |-> t.et[r] - min_start_time]
    IN  IF cfg.sync_end_time
        THEN [st |-> [r \in Rows_ |-> st[r] + (HeatMaxEnd(et, paths[r].heat) - et[r])],
              et |-> [r \in Rows_ |-> HeatMaxEnd(et, paths[r].heat)]]
        ELSE [st |-> st, et |-> et]

\* the start and end times forward() computes for the paths and the crew of
\* the state with the heat delay time_offset_heat
ForwardTimes(time_offset_heat) ==
    With(InitPathTimeUpTo(time_offset_heat, Len(paths)), LAMBDA t : ShiftAndSync(t))

\* the operators above compute what the actions compute
ForwardTimesAgree ==
    TimesComputed =>
        With(ForwardTimes(cfg.time_offset_heat),
             LAMBDA t : t.st = start_time /\ t.et = end_time)

\* C27: the start times of two paths of one heat differ by as much with the
\* heat delay as they do with no heat delay.
DelayKeepsHeatTogether ==
    TimesComputed /\ cfg.time_offset_heat > 0 =>
        With(ForwardTimes(0),
             LAMBDA undelayed :
               \A r1 \in Rows_, r2 \in Rows_ :
                   paths[r1].heat = paths[r2].heat =>
                       start_time[r1] - start_time[r2]
                           = undelayed.st[r1] - undelayed.st[r2])


-----------------------------------------------------------------------------
(* Termination of the spacing schedules                                    *)

\* the loops under the scheduling of a sequential program: a pass that can be
\* taken is taken
FairSchedule == SpecSchedule /\ WF_schedVars(NextSchedule)

\* C29: for every igniter count, depth >= 0 and heat_depth >= 0 the loop that
\* builds the contour levels and the loop that builds the strip start
\* positions come to an end.
ScheduleTerminates == <>(schedpc \in {"done", "raised"})


-----------------------------------------------------------------------------
(* Why the runs that reach MaxQueue and ScheduleCap do not end             *)

\* the entries of the queue whose cost is NaN
NaNCount(heap) == Cardinality({i \in DOMAIN heap : heap[i][1] = NaN})

\* a pass of the loop of iterate never lowers the number of NaN entries, and a
\* queue that held one is not empty after the pass: once a NaN candidate is
\* queued, len(self.PQ.list) > 0 holds for ever, whatever MaxQueue is
NaNEntriesStay ==
    [][cdpc = "loop" /\ cdpc' = "loop" =>
         /\ NaNCount(cd_PQ') >= NaNCount(cd_PQ)
         /\ (NaNCount(cd_PQ) > 0 => Len(cd_PQ') > 0)]_vars

\* a NaN candidate is queued
NaNQueued == cdpc = "loop" /\ NaNCount(cd_PQ) > 0

\* a pass of the levels loop whose steps add up to 0 leaves levels[-1] where
\* it was and the test of the loop true, whatever ScheduleCap is
LevelsStuck ==
    [][/\ schedpc = "loop" /\ schedpc' = "loop" /\ sched_args.loop = "levels"
       /\ (sched_args.num_igniters - 1) * sched_args.depth + sched_args.heat_depth = 0
       => /\ sched_list'[Len(sched_list')] = sched_list[Len(sched_list)]
          /\ MoreLevels(sched_list', sched_args.upper)]_vars

=============================================================================
